---- MODULE Spec2Model ----
(***************************************************************************)
(* benser: a toy browser engine.  This module models the rendering        *)
(* pipeline of benser-cli (css Parser::parse, style_tree, layout_tree)    *)
(* and the paint step of the wgpu renderer as a state machine, and the    *)
(* pure functions of the style resolver, layout engine and painter as     *)
(* operators.                                                             *)
(*                                                                         *)
(* Encodings                                                               *)
(*   Option<T>      a sequence of length 0 (None) or 1 (Some)              *)
(*   String         tag and property names are TLA+ strings; attribute     *)
(*                  values, ids and class names are sequences of           *)
(*                  one-character strings, so that split(' ') is computed  *)
(*   f32 pixels     integers                                               *)
(*   HashMap        a function whose DOMAIN is the key set                 *)
(*   &'a Rule       the position of the rule in stylesheet.rules           *)
(*   &'a StyledNode the path (child indices from the root) of the node     *)
(***************************************************************************)
EXTENDS Integers, Sequences, FiniteSets, TLC

VARIABLES
    pc,         \* position in the pipeline of benser-cli main
    dom,        \* root_node: the document tree
    css,        \* the stylesheet source: rules with selectors in source order
    sheet,      \* stylesheet: the parsed Stylesheet
    styled,     \* style_root: the StyledNode tree
    layouts,    \* the layout trees returned so far, with the viewport of each call
    looked,     \* the last StyledNode::lookup call and what it returned
    dims,       \* a Dimensions value whose boxes are taken
    rects,      \* the padding, border and margin box of dims
    painted,    \* State::paint's last call: viewport, layout tree, display commands, frame
    lyon_buffer, \* State.lyon_buffer: the rectangles drawn, in drawing order
    canvas,     \* the Canvas being painted
    items,      \* the display commands painted onto canvas so far, in order
    input,      \* Parser.input: the characters of the source text
    pos,        \* Parser.pos: a byte offset into input
    stack,      \* the calls of the parser that are under way, innermost last
    result,     \* what the last call of the parser returned
    window_size, \* State.window_size
    config,     \* State.config: its width and height
    surface,    \* the width and height the surface was last configured with
    control_flow, \* the ControlFlow of the event loop
    event,      \* the last event given to the closure of the event loop
    stderr,     \* the last line written by eprintln
    redraw_requested \* whether request_redraw has been called since the last redraw

vars == <<pc, dom, css, sheet, styled, layouts, looked, dims, rects, painted, lyon_buffer, canvas, items, input, pos, stack, result, window_size, config, surface, control_flow, event, stderr, redraw_requested>>

Null == [kind |-> "Null"]

\* no window has been opened
NoWindow ==
    /\ window_size = Null /\ config = Null /\ surface = Null /\ control_flow = Null
    /\ event = Null /\ stderr = Null /\ redraw_requested = Null

Range(s) == {s[i] : i \in DOMAIN s}

Some(x) == <<x>>

None == <<>>

\* ------------------------------------------------------------------ css/mod.rs

Keyword(s) == [kind |-> "Keyword", s |-> s]

Length(f) == [kind |-> "Length", f |-> f, unit |-> "Px"]

ColorValue(r, g, b) == [kind |-> "ColorValue", color |-> <<r, g, b, 255>>]

Declaration(name, value) == [name |-> name, value |-> value]

SimpleSelector(tag_name, id, class) == [tag_name |-> tag_name, id |-> id, class |-> class]

Rule(selectors, declarations) == [selectors |-> selectors, declarations |-> declarations]

\* Selector::specificity: (id count, class count, tag count)
specificity(simple) == <<Len(simple.id), Len(simple.class), Len(simple.tag_name)>>

\* Ord on (usize, usize, usize): lexicographic
SpecificityLess(a, b) ==
    \/ a[1] < b[1]
    \/ a[1] = b[1] /\ a[2] < b[2]
    \/ a[1] = b[1] /\ a[2] = b[2] /\ a[3] < b[3]

\* Value::to_px
to_px(v) == IF v.kind = "Length" THEN v.f ELSE 0

\* ------------------------------------------------------------------ slice::sort_by

\* cmp of two sort keys; Reverse(key) swaps the sides
KeyLess(x, y, reverse) ==
    IF reverse THEN SpecificityLess(y.key, x.key) ELSE SpecificityLess(x.key, y.key)

\* A stable sort of [key, item] pairs: every element goes behind the elements
\* that are not greater than it.
RECURSIVE StableSort(_, _)
StableSort(seq, reverse) ==
    IF seq = <<>> THEN <<>>
    ELSE LET x    == seq[Len(seq)]
             rest == StableSort(SubSeq(seq, 1, Len(seq) - 1), reverse)
         IN  SelectSeq(rest, LAMBDA y : ~KeyLess(x, y, reverse)) \o <<x>>
                 \o SelectSeq(rest, LAMBDA y : KeyLess(x, y, reverse))

\* the selectors with the key of sort_by_key: their specificity
KeyedSelectors(seq) == [i \in DOMAIN seq |-> [key |-> specificity(seq[i]), item |-> seq[i]]]

\* the matched rules with the key of the comparison: the recorded specificity
KeyedRules(seq) == [i \in DOMAIN seq |-> [key |-> seq[i].specificity, item |-> seq[i]]]

Items(seq) == [i \in DOMAIN seq |-> seq[i].item]

\* ------------------------------------------------------------------ css/parser.rs

parse_selectors_unsorted(selectors) == selectors

\* Parser::parse_selectors: the selectors of the list, then
\* sort_by_key(Reverse(specificity)), a stable sort, highest specificity first.
parse_selectors(selectors) == Items(StableSort(KeyedSelectors(selectors), TRUE))

\* Parser::parse_rule
parse_rule(src) == Rule(parse_selectors(src.selectors), src.declarations)

\* Parser::parse and parse_rules: one Rule per rule set, in source order
parse(source) == [rules |-> [i \in 1..Len(source) |-> parse_rule(source[i])]]

\* ------------------------------------------------------------------ html/dom.rs

\* Node::text
text(data) == [children |-> <<>>, node_type |-> [kind |-> "Text", data |-> data]]

\* Node::elem
elem(name, attrs, children) ==
    [children |-> children,
     node_type |-> [kind |-> "Element", tag_name |-> name, attributes |-> attrs]]

\* ElementData::id
id(e) == IF "id" \in DOMAIN e.attributes THEN Some(e.attributes["id"]) ELSE None

\* str::split(' '): the pieces between single separators, empty pieces included
RECURSIVE split(_, _)
split(s, sep) ==
    IF \A i \in DOMAIN s : s[i] # sep THEN <<s>>
    ELSE LET i == CHOOSE k \in DOMAIN s : s[k] = sep /\ \A j \in 1..(k - 1) : s[j] # sep
         IN  <<SubSeq(s, 1, i - 1)>> \o split(SubSeq(s, i + 1, Len(s)), sep)

\* ElementData::classes
classes(e) ==
    IF "class" \in DOMAIN e.attributes THEN Range(split(e.attributes["class"], " ")) ELSE {}

\* ------------------------------------------------------------------ style.rs

EmptyMap == [n \in {} |-> Null]

\* HashMap::insert
insert(m, k, v) == [n \in DOMAIN m \cup {k} |-> IF n = k THEN v ELSE m[n]]

\* StyledNode::value
value(node, name) ==
    IF name \in DOMAIN node.specified_values THEN Some(node.specified_values[name]) ELSE None

display_block_default(node) ==
    LET v == value(node, "display")
    IN  IF v # None /\ v[1].kind = "Keyword" /\ v[1].s = "none" THEN "None"
        ELSE IF v # None /\ v[1].kind = "Keyword" /\ v[1].s = "inline" THEN "Inline"
        ELSE "Block"

\* StyledNode::display
display(node) ==
    LET v == value(node, "display")
    IN  IF v # None /\ v[1].kind = "Keyword"
        THEN CASE v[1].s = "block" -> "Block"
               [] v[1].s = "none"  -> "None"
               [] OTHER            -> "Inline"
        ELSE "Inline"

lookup_fallback_first(node, name, fallback_name, default) ==
    IF value(node, fallback_name) # None THEN value(node, fallback_name)[1]
    ELSE IF value(node, name) # None THEN value(node, name)[1]
    ELSE default

\* StyledNode::lookup
lookup(node, name, fallback_name, default) ==
    IF value(node, name) # None THEN value(node, name)[1]
    ELSE IF value(node, fallback_name) # None THEN value(node, fallback_name)[1]
    ELSE default

matches_simple_selector_no_class(e, selector) ==
    IF \E i \in DOMAIN selector.tag_name : e.tag_name # selector.tag_name[i] THEN FALSE
    ELSE IF \E i \in DOMAIN selector.id : id(e) # Some(selector.id[i]) THEN FALSE
    ELSE TRUE

\* matches and matches_simple_selector
matches_simple_selector(e, selector) ==
    IF \E i \in DOMAIN selector.tag_name : e.tag_name # selector.tag_name[i] THEN FALSE
    ELSE IF \E i \in DOMAIN selector.id : id(e) # Some(selector.id[i]) THEN FALSE
    ELSE IF \E i \in DOMAIN selector.class : selector.class[i] \notin classes(e) THEN FALSE
    ELSE TRUE

\* match_rule: the first matching selector's specificity with the rule
match_rule(e, rule, ref) ==
    LET hits == SelectSeq(rule.selectors, LAMBDA s : matches_simple_selector(e, s))
    IN  IF hits = <<>> THEN None
        ELSE Some([specificity |-> specificity(hits[1]), rule |-> ref])

\* matching_rules: filter_map of match_rule over stylesheet.rules
matching_rules(e, stylesheet) ==
    LET F[i \in 0..Len(stylesheet.rules)] ==
            IF i = 0 THEN <<>> ELSE F[i - 1] \o match_rule(e, stylesheet.rules[i], i)
    IN  F[Len(stylesheet.rules)]

\* the loop over the declarations of one rule
RECURSIVE insert_all(_, _)
insert_all(values, declarations) ==
    IF declarations = <<>> THEN values
    ELSE insert_all(insert(values, declarations[1].name, declarations[1].value),
                    SubSeq(declarations, 2, Len(declarations)))

sort_rules_ties_reversed(rules) ==
    LET n == Len(rules)
        rev == [i \in 1..n |-> rules[n + 1 - i]]
    IN  Items(StableSort(KeyedRules(rev), FALSE))

sort_rules_descending(rules) ==
    Items(StableSort(KeyedRules(rules), TRUE))

\* rules.sort_by(|&(a, _), &(b, _)| a.cmp(&b)): stable, ascending specificity
sort_rules(rules) ==
    Items(StableSort(KeyedRules(rules), FALSE))

\* specified_values
specified_values(e, stylesheet) ==
    LET rules == sort_rules(matching_rules(e, stylesheet))
        F[i \in 0..Len(rules)] ==
            IF i = 0 THEN EmptyMap
            ELSE insert_all(F[i - 1], stylesheet.rules[rules[i].rule].declarations)
    IN  F[Len(rules)]

RECURSIVE style_tree_skipping_none(_, _)
style_tree_skipping_none(root, stylesheet) ==
    LET all == [i \in 1..Len(root.children) |->
                    style_tree_skipping_none(root.children[i], stylesheet)]
    IN  [node |-> root,
         specified_values |->
            IF root.node_type.kind = "Element"
            THEN specified_values(root.node_type, stylesheet) ELSE EmptyMap,
         children |-> SelectSeq(all, LAMBDA c : display(c) # "None")]

\* style_tree
RECURSIVE style_tree(_, _)
style_tree(root, stylesheet) ==
    [node |-> root,
     specified_values |->
        IF root.node_type.kind = "Element"
        THEN specified_values(root.node_type, stylesheet) ELSE EmptyMap,
     children |-> [i \in 1..Len(root.children) |-> style_tree(root.children[i], stylesheet)]]

\* ------------------------------------------------------------------ layout

Rect(x, y, width, height) == [x |-> x, y |-> y, width |-> width, height |-> height]

\* EdgeSizes::default
NoEdges == [left |-> 0, right |-> 0, top |-> 0, bottom |-> 0]

\* Dimensions::default
DefaultDimensions ==
    [content |-> Rect(0, 0, 0, 0), padding |-> NoEdges, border |-> NoEdges, margin |-> NoEdges]

\* Rect::expanded_by
expanded_by(rect, edge) ==
    Rect(rect.x - edge.left, rect.y - edge.top,
         rect.width + edge.left + edge.right, rect.height + edge.top + edge.bottom)

padding_box_of_border(d) == expanded_by(d.content, d.border)

\* Dimensions::padding_box
padding_box(d) == expanded_by(d.content, d.padding)

border_box_of_content(d) == expanded_by(d.content, d.border)

\* Dimensions::border_box
border_box(d) == expanded_by(padding_box(d), d.border)

margin_box_without_margin(d) == border_box(d)

\* Dimensions::margin_box
margin_box(d) == expanded_by(border_box(d), d.margin)

BlockNode(ref) == [kind |-> "BlockNode", node |-> ref]

InlineNode(ref) == [kind |-> "InlineNode", node |-> ref]

AnonymousBlock == [kind |-> "AnonymousBlock", node |-> <<>>]

\* LayoutBox::new
LayoutBox(box_type) ==
    [box_type |-> box_type, dimensions |-> DefaultDimensions, children |-> <<>>]

\* panic!("Root node has display: none.")
Panic == [panic |-> "Root node has display: none."]

Panicked(r) == "panic" \in DOMAIN r

\* LayoutBox::get_inline_container: the box with an anonymous block as its last
\* child, a new one unless the last child is one already
get_inline_container(box) ==
    IF box.children # <<>> /\ box.children[Len(box.children)].box_type.kind = "AnonymousBlock"
    THEN box
    ELSE [box EXCEPT !.children = Append(@, LayoutBox(AnonymousBlock))]

\* root.get_inline_container().children.push(child)
push_inline(box, child) ==
    LET b == get_inline_container(box)
    IN  [b EXCEPT !.children[Len(b.children)].children = Append(@, child)]

root_box_inline_default(style_node, ref) ==
    LayoutBox(IF display(style_node) = "Block" THEN BlockNode(ref) ELSE InlineNode(ref))

\* build_layout_tree, "Create the root box": a root with display none panics
root_box(style_node, ref) ==
    CASE display(style_node) = "Block"  -> LayoutBox(BlockNode(ref))
      [] display(style_node) = "Inline" -> LayoutBox(InlineNode(ref))
      [] display(style_node) = "None"   -> Panic

RECURSIVE build_layout_tree_keeps_none(_, _)
build_layout_tree_keeps_none(style_node, ref) ==
    LET root == root_box(style_node, ref)
        F[i \in 0..Len(style_node.children)] ==
            IF i = 0 THEN root
            ELSE LET child == style_node.children[i]
                     sub   == [child EXCEPT !.specified_values = EmptyMap]
                 IN  CASE display(child) = "Block" ->
                            [F[i - 1] EXCEPT !.children =
                                Append(@, build_layout_tree_keeps_none(child, Append(ref, i)))]
                       [] display(child) = "Inline" ->
                            push_inline(F[i - 1],
                                        build_layout_tree_keeps_none(child, Append(ref, i)))
                       [] OTHER ->
                            push_inline(F[i - 1],
                                        build_layout_tree_keeps_none(sub, Append(ref, i)))
    IN  IF Panicked(root) THEN root ELSE F[Len(style_node.children)]

RECURSIVE build_layout_tree_inline_direct(_, _)
build_layout_tree_inline_direct(style_node, ref) ==
    LET root == root_box(style_node, ref)
        F[i \in 0..Len(style_node.children)] ==
            IF i = 0 THEN root
            ELSE LET child == style_node.children[i]
                 IN  CASE display(child) \in {"Block", "Inline"} ->
                            [F[i - 1] EXCEPT !.children =
                                Append(@, build_layout_tree_inline_direct(child, Append(ref, i)))]
                       [] OTHER -> F[i - 1]
    IN  IF Panicked(root) THEN root ELSE F[Len(style_node.children)]

\* build_layout_tree; ref stands for the reference &style_node
RECURSIVE build_layout_tree(_, _)
build_layout_tree(style_node, ref) ==
    LET root == root_box(style_node, ref)
        F[i \in 0..Len(style_node.children)] ==
            IF i = 0 THEN root
            ELSE LET child == style_node.children[i]
                 IN  CASE display(child) = "Block" ->
                            [F[i - 1] EXCEPT !.children =
                                Append(@, build_layout_tree(child, Append(ref, i)))]
                       [] display(child) = "Inline" ->
                            push_inline(F[i - 1], build_layout_tree(child, Append(ref, i)))
                       [] OTHER -> F[i - 1]
    IN  IF Panicked(root) THEN root ELSE F[Len(style_node.children)]

\* the styled node a reference points to
RECURSIVE node_at(_, _)
node_at(root, ref) ==
    IF ref = <<>> THEN root ELSE node_at(root.children[ref[1]], SubSeq(ref, 2, Len(ref)))

Auto == Keyword("auto")

Zero == Length(0)

\* the property map layout reads for a box: anonymous boxes have no style
style_of(root, box) ==
    IF box.box_type.kind = "AnonymousBlock"
    THEN [node |-> Null, specified_values |-> EmptyMap, children |-> <<>>]
    ELSE node_at(root, box.box_type.node)

\* underflow / 2.0 (the lengths of the inputs are even numbers of px)
half(x) == x \div 2

resolve_width_unclamped(width0, ml0, mr0, left) ==
    IF width0 = Auto
    THEN [w |-> left, ml |-> to_px(ml0), mr |-> to_px(mr0)]
    ELSE [w |-> to_px(width0), ml |-> to_px(ml0), mr |-> to_px(mr0)]

resolve_width_right_takes_all(width0, ml0, mr0, left) ==
    IF width0 = Auto
    THEN [w |-> IF left >= 0 THEN left ELSE 0, ml |-> to_px(ml0), mr |-> to_px(mr0)]
    ELSE [w |-> to_px(width0), ml |-> to_px(ml0), mr |-> to_px(mr0) + left]

resolve_width_shrinks(width0, ml0, mr0, left) ==
    IF width0 = Auto
    THEN [w |-> IF left >= 0 THEN left ELSE 0, ml |-> to_px(ml0), mr |-> to_px(mr0)]
    ELSE [w |-> IF left < 0 THEN to_px(width0) + left ELSE to_px(width0),
          ml |-> to_px(ml0), mr |-> to_px(mr0)]

\* the used width and horizontal margins, left being the containing width minus
\* the specified width, margins, borders and paddings (auto counting as 0)
resolve_width(width0, ml0, mr0, left) ==
    IF width0 = Auto
    THEN [w  |-> IF left >= 0 THEN left ELSE 0, ml |-> to_px(ml0), mr |-> to_px(mr0)]
    ELSE IF ml0 = Auto /\ mr0 = Auto
    THEN [w |-> to_px(width0), ml |-> half(left), mr |-> half(left)]
    ELSE IF ml0 = Auto
    THEN [w |-> to_px(width0), ml |-> left, mr |-> to_px(mr0)]
    ELSE IF mr0 = Auto
    THEN [w |-> to_px(width0), ml |-> to_px(ml0), mr |-> left]
    ELSE [w |-> to_px(width0), ml |-> to_px(ml0),
          mr |-> IF left < 0 THEN to_px(mr0) + left ELSE to_px(mr0)]

\* step 1 of geometry solving: width and the horizontal edges
calculate_width(style, d, containing_block) ==
    LET width0  == IF value(style, "width") # None THEN value(style, "width")[1] ELSE Auto
        ml0     == lookup(style, "margin-left", "margin", Zero)
        mr0     == lookup(style, "margin-right", "margin", Zero)
        bl      == lookup(style, "border-left-width", "border-width", Zero)
        br      == lookup(style, "border-right-width", "border-width", Zero)
        pl      == lookup(style, "padding-left", "padding", Zero)
        pr      == lookup(style, "padding-right", "padding", Zero)
        fixed   == to_px(bl) + to_px(br) + to_px(pl) + to_px(pr)
        left    == containing_block.content.width
                     - (fixed + to_px(width0) + to_px(ml0) + to_px(mr0))
        r == resolve_width(width0, ml0, mr0, left)
    IN  [d EXCEPT !.content.width = r.w,
                  !.margin.left = r.ml, !.margin.right = r.mr,
                  !.border.left = to_px(bl), !.border.right = to_px(br),
                  !.padding.left = to_px(pl), !.padding.right = to_px(pr)]

\* step 2 of geometry solving: the vertical edges and the position
calculate_position(style, d, containing_block) ==
    LET mt == to_px(lookup(style, "margin-top", "margin", Zero))
        mb == to_px(lookup(style, "margin-bottom", "margin", Zero))
        bt == to_px(lookup(style, "border-top-width", "border-width", Zero))
        bb == to_px(lookup(style, "border-bottom-width", "border-width", Zero))
        pt == to_px(lookup(style, "padding-top", "padding", Zero))
        pb == to_px(lookup(style, "padding-bottom", "padding", Zero))
    IN  [d EXCEPT !.margin.top = mt, !.margin.bottom = mb,
                  !.border.top = bt, !.border.bottom = bb,
                  !.padding.top = pt, !.padding.bottom = pb,
                  !.content.x = containing_block.content.x + d.margin.left + d.border.left
                                  + d.padding.left,
                  !.content.y = containing_block.content.y + containing_block.content.height
                                  + mt + bt + pt]

\* step 4 of geometry solving: an explicit height replaces the children's sum
calculate_height(style, d) ==
    IF value(style, "height") # None /\ value(style, "height")[1].kind = "Length"
    THEN [d EXCEPT !.content.height = value(style, "height")[1].f]
    ELSE d

\* LayoutBox::layout: width, position, the children top to bottom (each one
\* below the margin box of the one before), height
RECURSIVE layout(_, _, _)
layout(root, box, containing_block) ==
    LET style == style_of(root, box)
        d1 == calculate_position(style,
                  calculate_width(style, box.dimensions, containing_block), containing_block)
        F[i \in 0..Len(box.children)] ==
            IF i = 0 THEN [d |-> d1, children |-> <<>>]
            ELSE LET child == layout(root, box.children[i], F[i - 1].d)
                 IN  [d |-> [F[i - 1].d EXCEPT !.content.height =
                                 @ + margin_box(child.dimensions).height],
                      children |-> Append(F[i - 1].children, child)]
        done == F[Len(box.children)]
    IN  [box_type |-> box.box_type,
         dimensions |-> calculate_height(style, done.d),
         children |-> done.children]

layout_tree_keeps_height(node, containing_block) ==
    LET built == build_layout_tree(node, <<>>)
    IN  IF Panicked(built) THEN built ELSE layout(node, built, containing_block)

\* layout_tree
layout_tree(node, containing_block) ==
    LET cb == [containing_block EXCEPT !.content.height = 0]
        built == build_layout_tree(node, <<>>)
    IN  IF Panicked(built) THEN built ELSE layout(node, built, cb)

\* ------------------------------------------------------------------ paint

SolidColor(color, rect) == [kind |-> "SolidColor", color |-> color, rect |-> rect]

\* the background colour of a box: its styled node's background, else
\* background-color, when that is a colour
get_color(root, box) ==
    LET v == lookup(style_of(root, box), "background", "background-color", Keyword("none"))
    IN  IF v.kind = "ColorValue" THEN Some(v.color) ELSE None

\* the commands of one box: a SolidColor over its border box when it has a
\* background colour
render_layout_box(root, box) ==
    IF get_color(root, box) # None
    THEN <<SolidColor(get_color(root, box)[1], border_box(box.dimensions))>>
    ELSE <<>>

RECURSIVE build_display_list_post_order(_, _)
build_display_list_post_order(root, layout_root) ==
    LET F[i \in 0..Len(layout_root.children)] ==
            IF i = 0 THEN <<>>
            ELSE F[i - 1] \o build_display_list_post_order(root, layout_root.children[i])
    IN  F[Len(layout_root.children)] \o render_layout_box(root, layout_root)

\* build_display_list: a box's own commands, then its children's in their order
RECURSIVE build_display_list(_, _)
build_display_list(root, layout_root) ==
    LET F[i \in 0..Len(layout_root.children)] ==
            IF i = 0 THEN render_layout_box(root, layout_root)
            ELSE F[i - 1] \o build_display_list(root, layout_root.children[i])
    IN  F[Len(layout_root.children)]

\* ------------------------------------------------------------------ String
\* A String is the sequence of its characters; a character is a TLA+ string
\* ("U+00E9" is the two-byte character e with acute accent), and positions are
\* byte offsets, as in Rust.

\* char::len_utf8
len_utf8(c) == IF c = "U+00E9" THEN 2 ELSE 1

\* the byte offset of the end of the k-th character
RECURSIVE end_of(_, _)
end_of(string, k) == IF k = 0 THEN 0 ELSE end_of(string, k - 1) + len_utf8(string[k])

\* String::len: the number of bytes
len(string) == end_of(string, Len(string))

\* the number of characters that end at the byte offset index, counted from
\* the k characters that end at offset; -1 when index is inside a character
\* or behind the end
RECURSIVE chars_before(_, _, _, _)
chars_before(string, index, k, offset) ==
    IF offset = index THEN k
    ELSE IF offset > index \/ k = Len(string) THEN -1
    ELSE chars_before(string, index, k + 1, offset + len_utf8(string[k + 1]))

\* str::is_char_boundary
is_char_boundary(string, index) == chars_before(string, index, 0, 0) >= 0

\* &string[index..]: the characters from the byte offset index on; panics
\* when index is not a character boundary
slice_from(string, index) ==
    LET k == chars_before(string, index, 0, 0)
    IN  IF k >= 0 THEN [chars |-> SubSeq(string, k + 1, Len(string))]
        ELSE [panic |-> "byte index is not a char boundary"]

\* the rest of a function after a call that may panic: a panic unwinds
\* through the caller
and_then(r, rest(_)) == IF Panicked(r) THEN r ELSE rest(r)

\* Parser::consume_char of both parsers: the current character and the new pos
consume_char(string, position) ==
    and_then(slice_from(string, position), LAMBDA rest :
        IF rest.chars = <<>> THEN [panic |-> "called Option::unwrap() on a None value"]
        ELSE [char |-> rest.chars[1],
              pos  |-> position + (IF Len(rest.chars) >= 2 THEN len_utf8(rest.chars[1])
                                   ELSE 1)])

\* Parser::eof
eof(string, position) == position >= len(string)

\* Parser::next_char: the current character, not consumed
next_char(string, position) ==
    and_then(slice_from(string, position), LAMBDA rest :
        IF rest.chars = <<>> THEN [panic |-> "called Option::unwrap() on a None value"]
        ELSE [char |-> rest.chars[1]])

\* Parser::starts_with
starts_with(string, position, s) ==
    and_then(slice_from(string, position), LAMBDA rest :
        [bool |-> Len(rest.chars) >= Len(s) /\ SubSeq(rest.chars, 1, Len(s)) = s])

\* Parser::consume_while, the test given as the set of characters it accepts:
\* the characters consumed and the new pos
RECURSIVE consume_while(_, _, _)
consume_while(string, position, accepted) ==
    IF eof(string, position) THEN [value |-> <<>>, pos |-> position]
    ELSE and_then(next_char(string, position), LAMBDA next :
            IF next.char \notin accepted THEN [value |-> <<>>, pos |-> position]
            ELSE and_then(consume_char(string, position), LAMBDA c :
                 and_then(consume_while(string, c.pos, accepted), LAMBDA more :
                    [value |-> <<c.char>> \o more.value, pos |-> more.pos])))

\* assert!(self.consume_char() == c)
expect_char(string, position, c) ==
    and_then(consume_char(string, position), LAMBDA r :
        IF r.char # c THEN [panic |-> "assertion failed"] ELSE r)

\* the characters the html parser tells apart, two letters, and a character
\* that is two bytes long
HtmlChars == {"<", ">", "/", "=", "'", " ", "a", "b", "U+00E9"}

\* '0'..='9', in order
Digits == <<"0", "1", "2", "3", "4", "5", "6", "7", "8", "9">>

\* 'a'..='z', in order
Letters ==
    <<"a", "b", "c", "d", "e", "f", "g", "h", "i", "j", "k", "l", "m",
      "n", "o", "p", "q", "r", "s", "t", "u", "v", "w", "x", "y", "z">>

\* the upper-case letters of the model
UpperCase == {"P"}

\* 'a'..='z' | 'A'..='Z' | '0'..='9' | '-' | '_'
valid_identifier_char == Range(Letters) \cup UpperCase \cup Range(Digits) \cup {"-", "_"}

\* the characters the css parser tells apart, a letter, a digit, and a
\* character that is two bytes long
CssChars == {"#", ".", "*", ",", "{", "}", ":", ";", " ", "a", "1", "U+00E9"}

\* every character of the model
Chars == HtmlChars \cup CssChars \cup valid_identifier_char

\* char::is_whitespace
Whitespace == {" "}

\* 'a'..='z' | 'A'..='Z' | '0'..='9'
TagNameChars == Range(Letters) \cup UpperCase \cup Range(Digits)

\* Parser::consume_whitespace
consume_whitespace(string, position) == consume_while(string, position, Whitespace)

\* ------------------------------------------------------------------ html/parser.rs
\* The parser's two loops run one iteration per step.  The calls under way are
\* frames: parse_nodes with the nodes pushed so far, parse_element with the tag
\* name and attributes of the open element, parse_attributes with the map.  The
\* frame of a loop records in start the pos at which its latest iteration
\* began, -1 before the first.

\* Parser::parse_tag_name
parse_tag_name(string, position) == consume_while(string, position, TagNameChars)

\* Parser::parse_text
parse_text(string, position) ==
    and_then(consume_while(string, position, Chars \ {"<"}), LAMBDA data :
        [value |-> text(data.value), pos |-> data.pos])

\* Parser::parse_attr_value
parse_attr_value(string, position) ==
    and_then(consume_char(string, position), LAMBDA open_quote :
        IF open_quote.char \notin {"\"", "'"} THEN [panic |-> "assertion failed"]
        ELSE and_then(consume_while(string, open_quote.pos, Chars \ {open_quote.char}),
                      LAMBDA quoted :
             and_then(expect_char(string, quoted.pos, open_quote.char), LAMBDA close :
                [value |-> quoted.value, pos |-> close.pos])))

parse_attr_lenient(string, position) ==
    and_then(parse_tag_name(string, position), LAMBDA name :
        LET equals == expect_char(string, name.pos, "=")
        IN  IF Panicked(equals)
            THEN [name |-> name.value, value |-> <<>>, pos |-> name.pos]
            ELSE and_then(parse_attr_value(string, equals.pos), LAMBDA quoted :
                    [name |-> name.value, value |-> quoted.value, pos |-> quoted.pos]))

\* Parser::parse_attr
parse_attr(string, position) ==
    and_then(parse_tag_name(string, position), LAMBDA name :
    and_then(expect_char(string, name.pos, "="), LAMBDA equals :
    and_then(parse_attr_value(string, equals.pos), LAMBDA quoted :
        [name |-> name.value, value |-> quoted.value, pos |-> quoted.pos])))

run_wraps_always(nodes) == elem(<<"h", "t", "m", "l">>, <<>>, nodes)

\* Parser::run, after parse_nodes has returned nodes
run(nodes) == IF Len(nodes) = 1 THEN nodes[1] ELSE elem(<<"h", "t", "m", "l">>, <<>>, nodes)

\* the opening tag of parse_element up to the call of parse_attributes
open_element(string, position, frames) ==
    and_then(expect_char(string, position, "<"), LAMBDA open :
    and_then(parse_tag_name(string, open.pos), LAMBDA tag_name :
        [pos   |-> tag_name.pos,
         stack |-> frames \o <<[fn |-> "parse_element", tag_name |-> tag_name.value],
                               [fn |-> "parse_attributes",
                                attributes |-> <<>>, start |-> -1]>>]))

\* the closing tag of parse_element, after parse_nodes has returned children:
\* the element is pushed onto the nodes of the enclosing parse_nodes
close_element(string, position, frames) ==
    LET n        == Len(frames)
        children == frames[n].nodes
        element  == frames[n - 1]
    IN  and_then(expect_char(string, position, "<"), LAMBDA open :
        and_then(expect_char(string, open.pos, "/"), LAMBDA slash :
        and_then(parse_tag_name(string, slash.pos), LAMBDA tag_name :
            IF tag_name.value # element.tag_name THEN [panic |-> "assertion failed"]
            ELSE and_then(expect_char(string, tag_name.pos, ">"), LAMBDA close :
                [pos   |-> close.pos,
                 stack |-> [SubSeq(frames, 1, n - 2) EXCEPT ![n - 2].nodes =
                               Append(@, elem(element.tag_name, element.attrs,
                                              children))]]))))

\* one iteration of the loop of Parser::parse_nodes, with what follows the loop
\* when the iteration leaves it
parse_nodes(string, position, calls) ==
    LET n      == Len(calls)
        frames == [calls EXCEPT ![n].start = position]
    IN  and_then(consume_whitespace(string, position), LAMBDA ws :
        and_then(starts_with(string, ws.pos, <<"<", "/">>), LAMBDA closing :
            IF eof(string, ws.pos) \/ closing.bool
            THEN IF n = 1
                 THEN [pos |-> ws.pos, stack |-> <<>>, returned |-> run(frames[n].nodes)]
                 ELSE close_element(string, ws.pos, frames)
            ELSE and_then(next_char(string, ws.pos), LAMBDA next :
                    IF next.char = "<" THEN open_element(string, ws.pos, frames)
                    ELSE and_then(parse_text(string, ws.pos), LAMBDA node :
                            [pos   |-> node.pos,
                             stack |-> [frames EXCEPT ![n].nodes =
                                           Append(@, node.value)]]))))

\* one iteration of the loop of Parser::parse_attributes; when the iteration
\* leaves the loop, parse_element goes on to its call of parse_nodes
parse_attributes(string, position, calls) ==
    LET n      == Len(calls)
        frames == [calls EXCEPT ![n].start = position]
    IN  and_then(consume_whitespace(string, position), LAMBDA ws :
        and_then(next_char(string, ws.pos), LAMBDA next :
            IF next.char = ">"
            THEN and_then(expect_char(string, ws.pos, ">"), LAMBDA close :
                    [pos   |-> close.pos,
                     stack |-> SubSeq(frames, 1, n - 2) \o
                               <<[fn |-> "parse_element",
                                  tag_name |-> frames[n - 1].tag_name,
                                  attrs |-> frames[n].attributes],
                                 [fn |-> "parse_nodes", nodes |-> <<>>, start |-> -1]>>])
            ELSE and_then(parse_attr(string, ws.pos), LAMBDA attr :
                    [pos   |-> attr.pos,
                     stack |-> [frames EXCEPT ![n].attributes =
                                   insert(@, attr.name, attr.value)]])))

\* ------------------------------------------------------------------ css/parser.rs, the text
\* The parser's four loops run one iteration per step.  The calls under way
\* are frames: parse_rules with the rules pushed so far, parse_rule with the
\* selectors once they are parsed, parse_selectors, parse_simple_selector and
\* parse_declarations with what they have collected; start is as in the html
\* parser.

\* Parser::parse_identifier
parse_identifier(string, position) == consume_while(string, position, valid_identifier_char)

\* the number a string of decimal digits denotes
RECURSIVE decimal(_)
decimal(digits) ==
    IF digits = <<>> THEN 0
    ELSE 10 * decimal(SubSeq(digits, 1, Len(digits) - 1))
         + (CHOOSE d \in 0..9 : Digits[d + 1] = digits[Len(digits)])

\* the digits without the zeros at their end
RECURSIVE significant(_)
significant(digits) ==
    IF digits # <<>> /\ digits[Len(digits)] = "0"
    THEN significant(SubSeq(digits, 1, Len(digits) - 1))
    ELSE digits

\* Parser::parse_float: digits and dots, then str::parse::<f32>().unwrap().  A
\* number with a fraction is kept as the pair of its whole part and the
\* digits of its fraction.
parse_float(string, position) ==
    and_then(consume_while(string, position, Range(Digits) \cup {"."}), LAMBDA s :
        LET dots == {i \in DOMAIN s.value : s.value[i] = "."}
        IN  IF Cardinality(dots) > 1 \/ Len(s.value) = Cardinality(dots)
            THEN [panic |-> "called Result::unwrap() on an Err value"]
            ELSE LET dot      == IF dots = {} THEN Len(s.value) + 1
                                 ELSE CHOOSE i \in dots : TRUE
                     whole    == decimal(SubSeq(s.value, 1, dot - 1))
                     fraction == significant(SubSeq(s.value, dot + 1, Len(s.value)))
                 IN  [value |-> IF fraction = <<>> THEN whole ELSE <<whole, fraction>>,
                      pos   |-> s.pos])

\* str::to_ascii_lowercase
to_ascii_lowercase(string) == [i \in DOMAIN string |-> IF string[i] = "P" THEN "p" ELSE string[i]]

\* Parser::parse_unit
parse_unit(string, position) ==
    and_then(parse_identifier(string, position), LAMBDA unit :
        IF to_ascii_lowercase(unit.value) # <<"p", "x">>
        THEN [panic |-> "unrecognized unit"]
        ELSE [value |-> "Px", pos |-> unit.pos])

\* Parser::parse_length
parse_length(string, position) ==
    and_then(parse_float(string, position), LAMBDA f :
    and_then(parse_unit(string, f.pos), LAMBDA unit :
        [value |-> Length(f.value), pos |-> unit.pos]))

\* the sixteen digits of from_str_radix(s, 16) that the model has
HexDigits == Digits \o SubSeq(Letters, 1, 6)

\* Parser::parse_hex_pair: the two bytes at pos as a hexadecimal number
parse_hex_pair(string, position) ==
    IF position + 2 > len(string)
    THEN [panic |-> "byte index out of bounds"]
    ELSE IF ~is_char_boundary(string, position) \/ ~is_char_boundary(string, position + 2)
    THEN [panic |-> "byte index is not a char boundary"]
    ELSE LET rest == slice_from(string, position).chars
             s    == SubSeq(rest, 1, CHOOSE k \in 1..2 : len(SubSeq(rest, 1, k)) = 2)
         IN  IF \E i \in DOMAIN s : s[i] \notin Range(HexDigits)
             THEN [panic |-> "called Result::unwrap() on an Err value"]
             ELSE [value |-> 16 * ((CHOOSE d \in 1..16 : HexDigits[d] = s[1]) - 1)
                             + (CHOOSE d \in 1..16 : HexDigits[d] = s[2]) - 1,
                   pos   |-> position + 2]

\* Parser::parse_color
parse_color(string, position) ==
    and_then(expect_char(string, position, "#"), LAMBDA hash :
    and_then(parse_hex_pair(string, hash.pos), LAMBDA r :
    and_then(parse_hex_pair(string, r.pos), LAMBDA g :
    and_then(parse_hex_pair(string, g.pos), LAMBDA b :
        [value |-> ColorValue(r.value, g.value, b.value), pos |-> b.pos]))))

\* Parser::parse_value
parse_value(string, position) ==
    and_then(next_char(string, position), LAMBDA next :
        IF next.char \in Range(Digits) THEN parse_length(string, position)
        ELSE IF next.char = "#" THEN parse_color(string, position)
        ELSE and_then(parse_identifier(string, position), LAMBDA keyword :
                [value |-> Keyword(keyword.value), pos |-> keyword.pos]))

\* Parser::parse_declaration
parse_declaration(string, position) ==
    and_then(parse_identifier(string, position), LAMBDA property_name :
    and_then(consume_whitespace(string, property_name.pos), LAMBDA ws1 :
    and_then(expect_char(string, ws1.pos, ":"), LAMBDA colon :
    and_then(consume_whitespace(string, colon.pos), LAMBDA ws2 :
    and_then(parse_value(string, ws2.pos), LAMBDA parsed :
    and_then(consume_whitespace(string, parsed.pos), LAMBDA ws3 :
    and_then(expect_char(string, ws3.pos, ";"), LAMBDA semicolon :
        [value |-> Declaration(property_name.value, parsed.value),
         pos   |-> semicolon.pos])))))))

\* one iteration of the loop of Parser::parse_rules, up to the loop of
\* parse_selectors that parse_rule calls; Parser::parse returns the
\* Stylesheet when the iteration leaves the loop
parse_rules(string, position, calls) ==
    LET n      == Len(calls)
        frames == [calls EXCEPT ![n].start = position]
        ws     == consume_whitespace(string, position)
    IN  IF Panicked(ws) THEN ws
        ELSE IF eof(string, ws.pos)
        THEN [pos |-> ws.pos, stack |-> <<>>, returned |-> [rules |-> frames[n].rules]]
        ELSE [pos   |-> ws.pos,
              stack |-> frames \o <<[fn |-> "parse_rule"],
                                    [fn |-> "parse_selectors", selectors |-> <<>>,
                                     start |-> -1]>>]

\* the start of an iteration of the loop of Parser::parse_selectors: the call
\* of parse_simple_selector
parse_selectors_loop(string, position, calls) ==
    LET n      == Len(calls)
        frames == [calls EXCEPT ![n].start = position]
    IN  [pos   |-> position,
         stack |-> frames \o <<[fn |-> "parse_simple_selector",
                                selector |-> SimpleSelector(None, None, <<>>),
                                start |-> -1]>>]

\* Parser::parse_declarations up to its loop, after parse_selectors has
\* returned the selectors to parse_rule
open_declarations(string, position, frames, selectors) ==
    LET n     == Len(frames)
        brace == expect_char(string, position, "{")
    IN  IF Panicked(brace) THEN brace
        ELSE [pos   |-> brace.pos,
              stack |-> SubSeq(frames, 1, n - 3) \o
                        <<[fn |-> "parse_rule", selectors |-> selectors],
                          [fn |-> "parse_declarations", declarations |-> <<>>,
                           start |-> -1]>>]

\* the rest of the iteration of parse_selectors after parse_simple_selector
\* has returned: the selector is pushed, and a comma ends the iteration while
\* a brace leaves the loop, the selectors are sorted and returned
push_selector(string, position, frames) ==
    LET n         == Len(frames)
        selectors == Append(frames[n - 1].selectors, frames[n].selector)
        ws        == consume_whitespace(string, position)
    IN  IF Panicked(ws) THEN ws
        ELSE LET next == next_char(string, ws.pos)
        IN  IF Panicked(next) THEN next
        ELSE IF next.char = ","
        THEN LET comma == consume_char(string, ws.pos)
                 ws2   == consume_whitespace(string, comma.pos)
             IN  IF Panicked(ws2) THEN ws2
                 ELSE [pos   |-> ws2.pos,
                       stack |-> [SubSeq(frames, 1, n - 1) EXCEPT
                                     ![n - 1].selectors = selectors]]
        ELSE IF next.char = "{"
        THEN open_declarations(string, ws.pos, frames, parse_selectors(selectors))
        ELSE [panic |-> "Unexpected character in selector list"]

\* one iteration of the loop of Parser::parse_simple_selector
parse_simple_selector(string, position, calls) ==
    LET n      == Len(calls)
        frames == [calls EXCEPT ![n].start = position]
    IN  IF eof(string, position) THEN push_selector(string, position, frames)
        ELSE LET next == next_char(string, position)
        IN  IF Panicked(next) THEN next
        ELSE IF next.char \in {"#", "."}
        THEN LET mark == consume_char(string, position)
                 name == parse_identifier(string, mark.pos)
             IN  IF Panicked(name) THEN name
                 ELSE [pos   |-> name.pos,
                       stack |-> IF next.char = "#"
                                 THEN [frames EXCEPT ![n].selector.id = Some(name.value)]
                                 ELSE [frames EXCEPT ![n].selector.class =
                                                         Append(@, name.value)]]
        ELSE IF next.char = "*"
        THEN [pos |-> consume_char(string, position).pos, stack |-> frames]
        ELSE IF next.char \in valid_identifier_char
        THEN LET name == parse_identifier(string, position)
             IN  IF Panicked(name) THEN name
                 ELSE [pos   |-> name.pos,
                       stack |-> [frames EXCEPT ![n].selector.tag_name = Some(name.value)]]
        ELSE push_selector(string, position, frames)

\* one iteration of the loop of Parser::parse_declarations; when it leaves the
\* loop, parse_rule returns the Rule and parse_rules pushes it
parse_declarations(string, position, calls) ==
    LET n      == Len(calls)
        frames == [calls EXCEPT ![n].start = position]
    IN  and_then(consume_whitespace(string, position), LAMBDA ws :
        and_then(next_char(string, ws.pos), LAMBDA next :
            IF next.char = "}"
            THEN [pos   |-> consume_char(string, ws.pos).pos,
                  stack |-> [SubSeq(frames, 1, n - 2) EXCEPT ![n - 2].rules =
                                Append(@, Rule(frames[n - 1].selectors,
                                               frames[n].declarations))]]
            ELSE and_then(parse_declaration(string, ws.pos), LAMBDA declaration :
                    [pos   |-> declaration.pos,
                     stack |-> [frames EXCEPT ![n].declarations =
                                   Append(@, declaration.value)]])))

\* ------------------------------------------------------------------ wgpu-renderer browser
\* The State is the record of its fields window_size, config (width and
\* height) and surface: the width and height of the latest
\* surface.configure call and the number of these calls.

PhysicalSize(width, height) == [width |-> width, height |-> height]

resize_unchecked(self, new_size) ==
    [window_size |-> new_size,
     config      |-> [width |-> new_size.width, height |-> new_size.height],
     surface     |-> [width |-> new_size.width, height |-> new_size.height,
                      configured |-> self.surface.configured + 1]]

\* State::resize
resize(self, new_size) ==
    IF new_size.width > 0 /\ new_size.height > 0
    THEN [window_size |-> new_size,
          config      |-> [width |-> new_size.width, height |-> new_size.height],
          surface     |-> [width |-> new_size.width, height |-> new_size.height,
                           configured |-> self.surface.configured + 1]]
    ELSE self

\* State::new: the surface configured with window.inner_size()
New(size) ==
    [window_size |-> size,
     config      |-> [width |-> size.width, height |-> size.height],
     surface     |-> [width |-> size.width, height |-> size.height, configured |-> 1]]

\* the events of the model
Resized(physical_size) == [kind |-> "Resized", size |-> physical_size]

ScaleFactorChanged(new_inner_size) == [kind |-> "ScaleFactorChanged", size |-> new_inner_size]

CloseRequested == [kind |-> "CloseRequested"]

KeyboardInput(state, virtual_keycode) ==
    [kind |-> "KeyboardInput", state |-> state, virtual_keycode |-> virtual_keycode]

Focused == [kind |-> "Focused"]

\* the arm of the closure for Event::RedrawRequested of the window, render
\* having returned rendered: the State, the control flow, the last line of
\* stderr
redraw(self, flow, err, rendered) ==
    IF rendered = "Ok" THEN [self |-> self, control_flow |-> flow, stderr |-> err]
    ELSE IF rendered = "Lost"
    THEN [self |-> resize(self, self.window_size), control_flow |-> flow, stderr |-> err]
    ELSE IF rendered = "OutOfMemory"
    THEN [self |-> self, control_flow |-> "Exit", stderr |-> err]
    ELSE [self |-> self, control_flow |-> flow, stderr |-> Some(rendered)]

window_event_exits_on_any_key(self, flow, received) ==
    IF received.kind \in {"Resized", "ScaleFactorChanged"}
    THEN [self |-> resize(self, received.size), control_flow |-> flow]
    ELSE IF received.kind \in {"CloseRequested", "KeyboardInput"}
    THEN [self |-> self, control_flow |-> "Exit"]
    ELSE [self |-> self, control_flow |-> flow]

\* the arm of the closure for Event::WindowEvent of the window; State::input
\* returns false, so the event is always matched
window_event(self, flow, received) ==
    IF received.kind \in {"Resized", "ScaleFactorChanged"}
    THEN [self |-> resize(self, received.size), control_flow |-> flow]
    ELSE IF \/ received.kind = "CloseRequested"
            \/ /\ received.kind = "KeyboardInput"
               /\ received.state = "Pressed"
               /\ received.virtual_keycode = Some("Escape")
    THEN [self |-> self, control_flow |-> "Exit"]
    ELSE [self |-> self, control_flow |-> flow]

\* ------------------------------------------------------------------ paint/canvas.rs
\* The f32 coordinates of the rectangles painted on a canvas are counted in
\* halves of a pixel, so that `as usize` has fractions to drop.  A Vec<Color>
\* made by Canvas::new is its length and the entries written since (index from
\* 0); every other entry is white.

Abs(m) == IF m < 0 THEN 0 - m ELSE m

\* the distance between neighbouring f32 values at m: a 24-bit significand
RECURSIVE ulp(_)
ulp(m) == IF Abs(m) < 2^24 THEN 1 ELSE 2 * ulp(m \div 2)

\* the f32 nearest to m, ties to the even significand
f32(m) ==
    LET q  == ulp(m)
        lo == (Abs(m) \div q) * q
        r  == Abs(m) - lo
        n  == IF 2 * r < q THEN lo
              ELSE IF 2 * r > q THEN lo + q
              ELSE IF (lo \div q) % 2 = 0 THEN lo ELSE lo + q
    IN  IF m < 0 THEN 0 - n ELSE n

\* f32::clamp
clamp(v, min, max) == IF v < min THEN min ELSE IF v > max THEN max ELSE v

\* usize as f32
as_f32(n) == f32(2 * n)

\* f32 as usize: the fraction is dropped, a negative value gives 0
as_usize(v) == IF v < 0 THEN 0 ELSE v \div 2

\* Color::new(255, 255, 255, 255)
White == <<255, 255, 255, 255>>

\* Canvas::new
Canvas(width, height) ==
    [pixels |-> [len |-> width * height, set |-> [i \in {} |-> White]],
     width |-> width, height |-> height]

\* self.pixels[i]
pixel(cv, i) == IF i \in DOMAIN cv.pixels.set THEN cv.pixels.set[i] ELSE White

\* Canvas::paint_item: pixels[x + y * width] = color for y in y0..y1, x in x0..x1;
\* an index that is not below pixels.len() panics
paint_item(cv, item) ==
    LET x0 == as_usize(clamp(item.rect.x, 0, as_f32(cv.width)))
        y0 == as_usize(clamp(item.rect.y, 0, as_f32(cv.height)))
        x1 == as_usize(clamp(f32(item.rect.x + item.rect.width), 0, as_f32(cv.width)))
        y1 == as_usize(clamp(f32(item.rect.y + item.rect.height), 0, as_f32(cv.height)))
        written == {x + y * cv.width : x \in x0..(x1 - 1), y \in y0..(y1 - 1)}
    IN  IF \E i \in written : i >= cv.pixels.len
        THEN [panic |-> "index out of bounds"]
        ELSE [cv EXCEPT !.pixels.set =
                 [i \in DOMAIN cv.pixels.set \cup written |->
                     IF i \in written THEN item.color ELSE cv.pixels.set[i]]]

\* ------------------------------------------------------------------ inputs

MaxRules == 3

Str1(a) == <<a>>

NoAttrs == [n \in {} |-> <<>>]

\* every sequence over U of length at most n
SeqsUpTo(U, n) == UNION {[1..k -> U] : k \in 0..n}

\* p, .a, #x, "p, p.a", "*, .a.b", "div, #y" (source order)
CascadeSelectorLists ==
    { <<SimpleSelector(Some("p"), None, <<>>)>>,
      <<SimpleSelector(None, None, <<Str1("a")>>)>>,
      <<SimpleSelector(None, Some(Str1("x")), <<>>)>>,
      <<SimpleSelector(Some("p"), None, <<>>),
        SimpleSelector(Some("p"), None, <<Str1("a")>>)>>,
      <<SimpleSelector(None, None, <<>>),
        SimpleSelector(None, None, <<Str1("a"), Str1("b")>>)>>,
      <<SimpleSelector(Some("div"), None, <<>>),
        SimpleSelector(None, Some(Str1("y")), <<>>)>> }

Red == ColorValue(204, 0, 0)

Blue == ColorValue(0, 0, 204)

CascadeDeclarationLists ==
    { <<Declaration("color", Red)>>, <<Declaration("color", Blue)>> }

CascadeRules ==
    {[selectors |-> s, declarations |-> d] :
        s \in CascadeSelectorLists, d \in CascadeDeclarationLists}

CascadeSources == SeqsUpTo(CascadeRules, MaxRules)

\* <p>, <p id="x" class="a b">, <div class="a">, <p class="">, a text node
CascadeDocs ==
    { elem("p", NoAttrs, <<>>),
      elem("p", [id |-> Str1("x"), class |-> <<"a", " ", "b">>], <<>>),
      elem("div", [class |-> Str1("a")], <<>>),
      elem("p", [class |-> <<>>], <<>>),
      text("t") }

\* the rules "* { d }" for the declarations the accessors tell apart
AccessRules ==
    {[selectors |-> <<SimpleSelector(None, None, <<>>)>>, declarations |-> <<d>>] :
        d \in { Declaration("display", Keyword("block")),
                Declaration("display", Keyword("none")),
                Declaration("display", Keyword("inline")),
                Declaration("display", Length(10)),
                Declaration("display", Red),
                Declaration("margin", Length(5)),
                Declaration("margin-left", Length(3)) }}

AccessSources == SeqsUpTo(AccessRules, MaxRules)

AccessDocs == { elem("p", NoAttrs, <<>>), text("t") }

LookupNames == {"margin-left", "margin", "display"}

LookupDefaults == {Zero, Auto}

MaxNodes == 4

\* <div>, <p class="h"> and text nodes
TreeElements == { [tag_name |-> "div", attributes |-> NoAttrs],
                  [tag_name |-> "p", attributes |-> [class |-> Str1("h")]] }

\* the documents of exactly n nodes, and the child lists of n nodes in all
RECURSIVE TreesOfSize(_), Forests(_)
TreesOfSize(n) ==
    (IF n = 1 THEN {text("t")} ELSE {})
      \cup {elem(e.tag_name, e.attributes, f) : e \in TreeElements, f \in Forests(n - 1)}

Forests(n) ==
    IF n = 0 THEN {<<>>}
    ELSE UNION {{<<t>> \o f : t \in TreesOfSize(k), f \in Forests(n - k)} : k \in 1..n}

TreeDocs == UNION {TreesOfSize(n) : n \in 1..MaxNodes}

TreeDeclarationLists ==
    { <<Declaration("display", Keyword("block"))>>,
      <<Declaration("display", Keyword("none"))>>,
      <<Declaration("display", Keyword("block")), Declaration("height", Length(20)),
        Declaration("margin", Length(10))>>,
      <<Declaration("padding", Length(10)), Declaration("margin-bottom", Length(20))>> }

\* "div { ... } .h { ... }"
TreeSources ==
    { << [selectors |-> <<SimpleSelector(Some("div"), None, <<>>)>>, declarations |-> d1],
         [selectors |-> <<SimpleSelector(None, None, <<Str1("h")>>)>>, declarations |-> d2] >> :
        d1 \in TreeDeclarationLists, d2 \in TreeDeclarationLists }

ViewportWidth == 800

ViewportHeight == 600

\* Dimensions::default() with the content width and height of the viewport
Viewports ==
    {[DefaultDimensions EXCEPT !.content.width = ViewportWidth, !.content.height = h] :
        h \in {0, ViewportHeight}}

MaxLayoutNodes == 3

LayoutDocs == UNION {TreesOfSize(n) : n \in 1..MaxLayoutNodes}

Block == Declaration("display", Keyword("block"))

\* the declaration blocks that tell the cases of the width algorithm apart
LayoutDeclarationLists ==
    { <<Block>>,
      <<Block, Declaration("width", Length(200)), Declaration("margin", Auto)>>,
      <<Block, Declaration("width", Length(200)), Declaration("margin-left", Auto),
        Declaration("margin-right", Length(20)), Declaration("height", Length(30))>>,
      <<Block, Declaration("width", Length(200)), Declaration("margin-right", Auto),
        Declaration("margin-left", Length(10))>>,
      <<Block, Declaration("width", Length(1000)), Declaration("margin-left", Length(10)),
        Declaration("margin-right", Length(20)), Declaration("padding", Length(10))>>,
      <<Block, Declaration("margin", Length(500))>>,
      <<Block, Declaration("padding", Length(10)), Declaration("margin-left", Auto)>>,
      <<Block, Declaration("width", Length(200)), Declaration("margin", Length(10)),
        Declaration("height", Length(30))>>,
      <<Block, Declaration("width", Length(1000)), Declaration("margin", Auto)>>,
      <<Declaration("padding", Length(10)), Declaration("border-width", Length(2))>> }

\* "div { ... } .h { ... }"
LayoutSources ==
    { << [selectors |-> <<SimpleSelector(Some("div"), None, <<>>)>>, declarations |-> d1],
         [selectors |-> <<SimpleSelector(None, None, <<Str1("h")>>)>>, declarations |-> d2] >> :
        d1 \in LayoutDeclarationLists, d2 \in LayoutDeclarationLists }

EdgeSizes(left, right, top, bottom) ==
    [left |-> left, right |-> right, top |-> top, bottom |-> bottom]

\* Dimensions values: paddings of 0 or 2, borders of 0 or 4, margins of -6 or 8
BoxDimensions ==
    {[content |-> c, padding |-> p, border |-> b, margin |-> m] :
        c \in {Rect(0, 0, 0, 0), Rect(10, 20, 100, 50)},
        p \in {EdgeSizes(l, r, t, u) : l \in {0, 2}, r \in {0, 2}, t \in {0, 2}, u \in {0, 2}},
        b \in {EdgeSizes(l, r, t, u) : l \in {0, 4}, r \in {0, 4}, t \in {0, 4}, u \in {0, 4}},
        m \in {EdgeSizes(l, r, t, u) : l \in {0 - 6, 8}, r \in {0 - 6, 8},
                                      t \in {0 - 6, 8}, u \in {0 - 6, 8}}}

\* blocks and an inline with and without a background colour
PaintDeclarationLists ==
    { <<Block, Declaration("background", Red), Declaration("margin", Length(10)),
        Declaration("height", Length(20))>>,
      <<Block, Declaration("background-color", Blue), Declaration("height", Length(10))>>,
      <<Declaration("background", Blue), Declaration("padding", Length(2))>>,
      <<Block, Declaration("padding", Length(4))>> }

\* "div { ... } .h { ... }"
PaintSources ==
    { << [selectors |-> <<SimpleSelector(Some("div"), None, <<>>)>>, declarations |-> d1],
         [selectors |-> <<SimpleSelector(None, None, <<Str1("h")>>)>>, declarations |-> d2] >> :
        d1 \in PaintDeclarationLists, d2 \in PaintDeclarationLists }

MaxFrames == 2

MaxSize == 2

MaxConfigures == 3

\* the sizes a window can have, in pixels
Sizes == {PhysicalSize(width, height) : width \in 0..MaxSize, height \in 0..MaxSize}

\* what State::render returns: Ok or a wgpu::SurfaceError
Rendered == {"Ok", "Lost", "OutOfMemory", "Outdated", "Timeout"}

WindowEvents ==
    {Resized(size) : size \in Sizes} \cup {ScaleFactorChanged(size) : size \in Sizes}
    \cup {CloseRequested, Focused}
    \cup {KeyboardInput(state, key) : state \in {"Pressed", "Released"},
                                      key \in {None, Some("Escape"), Some("A")}}

\* the window of the State and another one
WindowIds == {"window", "other"}

MaxCanvas == 2

MaxItems == 2

\* a width that `as f32` rounds up: 16777219 becomes 16777220.0
WideCanvas == 2^24 + 3

\* rectangles in half pixels: one pixel, a negative origin, partly and wholly
\* outside, of zero and of negative size, with fractions, over a small canvas,
\* and one over the right edge of a wide canvas
CanvasRects ==
    { Rect(0, 0, 2, 2), Rect(0 - 2, 0 - 2, 4, 4), Rect(2, 0, 12, 2), Rect(20, 20, 2, 2),
      Rect(0, 0, 0, 0), Rect(2, 2, 0 - 2, 0 - 2), Rect(1, 1, 2, 2), Rect(0, 0, 12, 12),
      Rect(0, 2, 4, 2), Rect(0 - 6, 0, 4, 4), Rect(3, 0, 3, 4), Rect(2, 2, 2, 2),
      Rect(2 * (WideCanvas - 1), 0, 20, 2) }

CanvasItems == {SolidColor(c, r) : c \in {Red.color, Blue.color}, r \in CanvasRects}

CanvasSizes ==
    {[width |-> w, height |-> h] : w \in 0..MaxCanvas \cup {WideCanvas}, h \in 0..MaxCanvas}

MaxInput == 3

\* every text of at most MaxInput characters
ShortInputs == SeqsUpTo(HtmlChars, MaxInput)

MaxTopLevel == 2

MaxChildren == 1

\* the element's attributes as they are written in its opening tag
attributes_to_html(attributes) ==
    IF DOMAIN attributes = {} THEN <<>>
    ELSE LET name == CHOOSE k \in DOMAIN attributes : TRUE
         IN  <<" ">> \o name \o <<"=", "'">> \o attributes[name] \o <<"'">>

\* the source text of sibling nodes after the first: gap is written after
\* every element (after a text it would be part of the text)
RECURSIVE siblings_to_html(_, _)
siblings_to_html(nodes, gap) ==
    IF nodes = <<>> THEN <<>>
    ELSE LET node == Head(nodes)
             tag  == node.node_type
         IN  (IF tag.kind = "Text" THEN tag.data
              ELSE <<"<">> \o tag.tag_name \o attributes_to_html(tag.attributes) \o <<">">>
                   \o gap \o siblings_to_html(node.children, gap)
                   \o <<"<", "/">> \o tag.tag_name \o <<">">> \o gap)
             \o siblings_to_html(Tail(nodes), gap)

\* the source text of a document: gap is written before the first node too
to_html(nodes, gap) == gap \o siblings_to_html(nodes, gap)

\* no two text nodes are next to each other: their texts would be one text
NoAdjacentText(nodes) ==
    \A i \in 1..(Len(nodes) - 1) :
        ~(nodes[i].node_type.kind = "Text" /\ nodes[i + 1].node_type.kind = "Text")

HtmlLeaves ==
    {text(<<"a", " ", "b">>), elem(<<"a">>, <<>>, <<>>),
     elem(<<"b">>, insert(<<>>, <<"a">>, <<"b", " ">>), <<>>)}

HtmlNodes ==
    HtmlLeaves \cup {elem(<<"a">>, <<>>, children) : children \in
                        {c \in SeqsUpTo(HtmlLeaves, MaxChildren) :
                            c # <<>> /\ NoAdjacentText(c)}}

\* the lists of top-level nodes of a document
HtmlForests == {nodes \in SeqsUpTo(HtmlNodes, MaxTopLevel) : NoAdjacentText(nodes)}

\* the documents written out, without and with whitespace between the nodes
HtmlDocuments ==
    {[nodes |-> nodes, source |-> to_html(nodes, gap)] :
        nodes \in HtmlForests, gap \in {<<>>, <<" ">>}}

MaxSelectors == 3

\* a selector as it is written: type#id.class1.class2
RECURSIVE classes_to_css(_)
classes_to_css(class) ==
    IF class = <<>> THEN <<>> ELSE <<".">> \o Head(class) \o classes_to_css(Tail(class))

selector_to_css(simple) ==
    (IF simple.tag_name = None THEN <<>> ELSE simple.tag_name[1])
    \o (IF simple.id = None THEN <<>> ELSE <<"#">> \o simple.id[1])
    \o classes_to_css(simple.class)

\* the decimal digits of a natural number
RECURSIVE to_decimal(_)
to_decimal(n) ==
    (IF n < 10 THEN <<>> ELSE to_decimal(n \div 10)) \o <<Digits[(n % 10) + 1]>>

\* a value as it is written: a keyword, a length in px, or #rrggbb
value_to_css(v) ==
    IF v.kind = "Keyword" THEN v.s
    ELSE IF v.kind = "Length" THEN to_decimal(v.f) \o <<"p", "x">>
    ELSE <<"#">> \o [i \in 1..6 |-> HexDigits[(IF i % 2 = 1 THEN v.color[(i + 1) \div 2] \div 16
                                               ELSE v.color[i \div 2] % 16) + 1]]

RECURSIVE declarations_to_css(_, _)
declarations_to_css(declarations, gap) ==
    IF declarations = <<>> THEN <<>>
    ELSE Head(declarations).name \o <<":">> \o gap \o value_to_css(Head(declarations).value)
         \o <<";">> \o gap \o declarations_to_css(Tail(declarations), gap)

RECURSIVE selectors_to_css(_, _)
selectors_to_css(selectors, gap) ==
    selector_to_css(Head(selectors))
    \o (IF Len(selectors) = 1 THEN <<>>
        ELSE <<",">> \o gap \o selectors_to_css(Tail(selectors), gap))

\* the source text of a stylesheet whose rules list their selectors in the
\* order written: gap is the whitespace between the parts
RECURSIVE to_css(_, _)
to_css(rules, gap) ==
    IF rules = <<>> THEN gap
    ELSE gap \o selectors_to_css(Head(rules).selectors, gap) \o gap \o <<"{">> \o gap
         \o declarations_to_css(Head(rules).declarations, gap) \o <<"}">>
         \o to_css(Tail(rules), gap)

\* h1, h2, h3, .a and #a
CssSelectors ==
    {SimpleSelector(Some(<<"h", digit>>), None, <<>>) : digit \in {"1", "2", "3"}}
    \cup {SimpleSelector(None, None, <<<<"a">>>>), SimpleSelector(None, Some(<<"a">>), <<>>)}

CssDeclarationLists ==
    LET margin  == Declaration(<<"m">>, Keyword(<<"a", "u", "t", "o">>))
        color   == Declaration(<<"c">>, ColorValue(204, 0, 0))
        padding == Declaration(<<"p">>, Length(20))
    IN  {<<>>, <<margin>>, <<margin, color>>, <<padding, margin>>}

CssRules ==
    {Rule(selectors, declarations) :
        selectors \in {l \in SeqsUpTo(CssSelectors, MaxSelectors) : l # <<>>},
        declarations \in CssDeclarationLists}

\* the stylesheets: none, one of every rule, and two of the rules with a
\* single selector
CssSheets ==
    {<<>>} \cup {<<rule>> : rule \in CssRules}
    \cup {<<first, second>> : first, second \in {r \in CssRules :
             Len(r.selectors) = 1 /\ Len(r.declarations) = 1}}

\* the stylesheets written out, without and with whitespace between the parts
CssDocuments ==
    {[rules |-> rules, source |-> to_css(rules, gap)] :
        rules \in CssSheets, gap \in {<<>>, <<" ">>}}

\* ------------------------------------------------------------------ benser-cli main

InitWith(Docs, Sources) ==
    /\ pc = "start"
    /\ dom \in Docs
    /\ css \in Sources
    /\ sheet = Null
    /\ styled = Null
    /\ layouts = {}
    /\ looked = Null
    /\ dims = Null
    /\ rects = Null
    /\ painted = Null
    /\ lyon_buffer = <<>>
    /\ NoWindow
    /\ input = <<>> /\ pos = 0 /\ stack = <<>> /\ result = Null
    /\ canvas = Null /\ items = <<>>

\* css_parser::parse(css_source)
ParseCss ==
    /\ pc = "start"
    /\ sheet' = parse(css)
    /\ pc' = "parsed"
    /\ UNCHANGED <<dom, css, styled, layouts, looked, dims, rects, painted, lyon_buffer, canvas, items, input, pos, stack, result, window_size, config, surface, control_flow, event, stderr, redraw_requested>>

\* style_tree(&root_node, &stylesheet)
StyleTree ==
    /\ pc = "parsed"
    /\ styled' = style_tree(dom, sheet)
    /\ pc' = "styled"
    /\ UNCHANGED <<dom, css, sheet, layouts, looked, dims, rects, painted, lyon_buffer, canvas, items, input, pos, stack, result, window_size, config, surface, control_flow, event, stderr, redraw_requested>>

\* layout_tree(&style_root, viewport): a panic ends the run with no layout tree
LayoutTree ==
    /\ pc \in {"styled", "laid"}
    /\ \E viewport \in Viewports :
      \E laid \in {layout_tree(styled, viewport)} :
        IF Panicked(laid)
        THEN pc' = "panicked" /\ UNCHANGED layouts
        ELSE /\ pc' = "laid"
             /\ layouts' = layouts \cup {[viewport |-> viewport, root |-> laid]}
    /\ UNCHANGED <<dom, css, sheet, styled, looked, dims, rects, painted, lyon_buffer, canvas, items, input, pos, stack, result, window_size, config, surface, control_flow, event, stderr, redraw_requested>>

\* style_root.lookup(name, fallback_name, &default)
Lookup ==
    /\ pc = "styled"
    /\ \E name \in LookupNames, fallback_name \in LookupNames, default \in LookupDefaults :
        looked' = [name |-> name, fallback_name |-> fallback_name, default |-> default,
                   result |-> lookup(styled, name, fallback_name, default)]
    /\ UNCHANGED <<pc, dom, css, sheet, styled, layouts, dims, rects, painted, lyon_buffer, canvas, items, input, pos, stack, result, window_size, config, surface, control_flow, event, stderr, redraw_requested>>

Init == InitWith(TreeDocs, TreeSources)

Next == ParseCss \/ StyleTree \/ LayoutTree

Spec == Init /\ [][Next]_vars

InitLayout == InitWith(LayoutDocs, LayoutSources)

SpecLayout == InitLayout /\ [][Next]_vars

\* State::render clears lyon_buffer and calls State::paint(viewport): the layout
\* tree, its display commands, and draw_rectangle for each command in order
\* (a rectangle is recorded by its Rect and colour, not by its vertices);
\* frame counts the frames rendered
Paint ==
    /\ pc \in {"styled", "painted"}
    /\ pc = "painted" => painted.frame < MaxFrames
    /\ \E viewport \in Viewports :
      \E layout_root \in {layout_tree(styled, viewport)} :
        IF Panicked(layout_root)
        THEN pc' = "panicked" /\ UNCHANGED <<painted, lyon_buffer>>
        ELSE \E display_commands \in {build_display_list(styled, layout_root)} :
                /\ pc' = "painted"
                /\ painted' = [viewport |-> viewport, layout_root |-> layout_root,
                               display_commands |-> display_commands,
                               frame |-> IF pc = "painted" THEN painted.frame + 1 ELSE 1]
                /\ lyon_buffer' = [i \in DOMAIN display_commands |->
                                      [rect |-> display_commands[i].rect,
                                       color |-> display_commands[i].color]]
    /\ UNCHANGED <<dom, css, sheet, styled, layouts, looked, dims, rects, canvas, items, input, pos, stack, result, window_size, config, surface, control_flow, event, stderr, redraw_requested>>

InitPaint == InitWith(TreeDocs, PaintSources)

NextPaint == ParseCss \/ StyleTree \/ Paint

SpecPaint == InitPaint /\ [][NextPaint]_vars

\* canvas.paint_item(&item) for one more display command
PaintItem ==
    /\ pc = "canvas"
    /\ Len(items) < MaxItems
    /\ \E item \in CanvasItems :
        \E cv \in {paint_item(canvas, item)} :
            IF Panicked(cv)
            THEN pc' = "panicked" /\ UNCHANGED <<canvas, items>>
            ELSE pc' = pc /\ canvas' = cv /\ items' = Append(items, item)
    /\ UNCHANGED <<dom, css, sheet, styled, layouts, looked, dims, rects, painted, lyon_buffer, input, pos, stack, result, window_size, config, surface, control_flow, event, stderr, redraw_requested>>

\* a fresh canvas
InitCanvas ==
    /\ pc = "canvas"
    /\ \E size \in CanvasSizes : canvas = Canvas(size.width, size.height)
    /\ items = <<>>
    /\ dom = Null /\ css = Null /\ sheet = Null /\ styled = Null /\ dims = Null /\ rects = Null
    /\ layouts = {} /\ looked = Null /\ painted = Null /\ lyon_buffer = <<>>
    /\ NoWindow
    /\ input = <<>> /\ pos = 0 /\ stack = <<>> /\ result = Null

SpecCanvas == InitCanvas /\ [][PaintItem]_vars

\* everything but the parser's fields and the document it reads
NoPipeline ==
    /\ sheet = Null /\ styled = Null /\ dims = Null /\ rects = Null
    /\ layouts = {} /\ looked = Null /\ painted = Null /\ lyon_buffer = <<>>
    /\ NoWindow
    /\ canvas = Null /\ items = <<>>

\* a step of the parser that ended as r: a panic, the parser's return, or the
\* next iteration to run
Step(r) ==
    IF Panicked(r)
    THEN pc' = "panicked" /\ UNCHANGED <<pos, stack, result>>
    ELSE /\ pos' = r.pos
         /\ stack' = r.stack
         /\ IF "returned" \in DOMAIN r
            THEN pc' = "done" /\ result' = r.returned
            ELSE pc' = pc /\ UNCHANGED result

\* an iteration of the loop of html Parser::parse_nodes
ParseNodes ==
    /\ pc = "html"
    /\ stack[Len(stack)].fn = "parse_nodes"
    /\ \E r \in {parse_nodes(input, pos, stack)} : Step(r)
    /\ UNCHANGED <<dom, css, sheet, styled, layouts, looked, dims, rects, painted, lyon_buffer, canvas, items, input, window_size, config, surface, control_flow, event, stderr, redraw_requested>>

\* an iteration of the loop of html Parser::parse_attributes
ParseAttributes ==
    /\ pc = "html"
    /\ stack[Len(stack)].fn = "parse_attributes"
    /\ \E r \in {parse_attributes(input, pos, stack)} : Step(r)
    /\ UNCHANGED <<dom, css, sheet, styled, layouts, looked, dims, rects, painted, lyon_buffer, canvas, items, input, window_size, config, surface, control_flow, event, stderr, redraw_requested>>

\* Parser::from_string(input).run(), at its call of parse_nodes; dom is the
\* document the text was written from, if it was
InitHtml ==
    /\ pc = "html"
    /\ \/ input \in ShortInputs /\ dom = Null
       \/ dom \in HtmlDocuments /\ input = dom.source
    /\ css = Null
    /\ pos = 0
    /\ stack = <<[fn |-> "parse_nodes", nodes |-> <<>>, start |-> -1]>>
    /\ result = Null
    /\ NoPipeline

NextHtml == ParseNodes \/ ParseAttributes

SpecHtml == InitHtml /\ [][NextHtml]_vars

\* an iteration of the loop of css Parser::parse_rules
ParseRules ==
    /\ pc = "css"
    /\ stack[Len(stack)].fn = "parse_rules"
    /\ \E r \in {parse_rules(input, pos, stack)} : Step(r)
    /\ UNCHANGED <<dom, css, sheet, styled, layouts, looked, dims, rects, painted, lyon_buffer, canvas, items, input, window_size, config, surface, control_flow, event, stderr, redraw_requested>>

\* an iteration of the loop of css Parser::parse_selectors
ParseSelectors ==
    /\ pc = "css"
    /\ stack[Len(stack)].fn = "parse_selectors"
    /\ \E r \in {parse_selectors_loop(input, pos, stack)} : Step(r)
    /\ UNCHANGED <<dom, css, sheet, styled, layouts, looked, dims, rects, painted, lyon_buffer, canvas, items, input, window_size, config, surface, control_flow, event, stderr, redraw_requested>>

\* an iteration of the loop of css Parser::parse_simple_selector
ParseSimpleSelector ==
    /\ pc = "css"
    /\ stack[Len(stack)].fn = "parse_simple_selector"
    /\ \E r \in {parse_simple_selector(input, pos, stack)} : Step(r)
    /\ UNCHANGED <<dom, css, sheet, styled, layouts, looked, dims, rects, painted, lyon_buffer, canvas, items, input, window_size, config, surface, control_flow, event, stderr, redraw_requested>>

\* an iteration of the loop of css Parser::parse_declarations
ParseDeclarations ==
    /\ pc = "css"
    /\ stack[Len(stack)].fn = "parse_declarations"
    /\ \E r \in {parse_declarations(input, pos, stack)} : Step(r)
    /\ UNCHANGED <<dom, css, sheet, styled, layouts, looked, dims, rects, painted, lyon_buffer, canvas, items, input, window_size, config, surface, control_flow, event, stderr, redraw_requested>>

\* Parser::parse(source), at its call of parse_rules; css is the stylesheet
\* the text was written from, if it was
InitCss ==
    /\ pc = "css"
    /\ \/ input \in SeqsUpTo(CssChars, MaxInput) /\ css = Null
       \/ css \in CssDocuments /\ input = css.source
    /\ dom = Null
    /\ pos = 0
    /\ stack = <<[fn |-> "parse_rules", rules |-> <<>>, start |-> -1]>>
    /\ result = Null
    /\ NoPipeline

NextCss == ParseRules \/ ParseSelectors \/ ParseSimpleSelector \/ ParseDeclarations

SpecCss == InitCss /\ [][NextCss]_vars

\* either parser, started on a text
InitParsers == InitHtml \/ InitCss

NextParsers == NextHtml \/ NextCss

SpecParsers == InitParsers /\ [][NextParsers]_vars

\* the State as a record of its fields
Self == [window_size |-> window_size, config |-> config, surface |-> surface]

\* Event::RedrawRequested: state.update() and state.render(); for another
\* window the event falls to the last arm
RedrawRequested ==
    /\ pc = "window"
    /\ control_flow # "Exit"
    /\ \E window_id \in WindowIds, rendered \in Rendered :
        /\ window_id # "window" => rendered = "Ok"
        /\ event' = [kind |-> "RedrawRequested", window_id |-> window_id,
                     rendered |-> rendered]
        /\ IF window_id = "window"
           THEN \E r \in {redraw(Self, control_flow, stderr, rendered)} :
                   /\ r.self.surface.configured <= MaxConfigures
                   /\ window_size' = r.self.window_size
                   /\ config' = r.self.config
                   /\ surface' = r.self.surface
                   /\ control_flow' = r.control_flow
                   /\ stderr' = r.stderr
                   /\ redraw_requested' = FALSE
           ELSE UNCHANGED <<window_size, config, surface, control_flow, stderr,
                            redraw_requested>>
    /\ UNCHANGED <<pc, dom, css, sheet, styled, layouts, looked, dims, rects, painted, lyon_buffer, canvas, items, input, pos, stack, result>>

\* Event::MainEventsCleared: state.window().request_redraw()
MainEventsCleared ==
    /\ pc = "window"
    /\ control_flow # "Exit"
    /\ event' = [kind |-> "MainEventsCleared"]
    /\ redraw_requested' = TRUE
    /\ UNCHANGED <<pc, dom, css, sheet, styled, layouts, looked, dims, rects, painted, lyon_buffer, canvas, items, input, pos, stack, result, window_size, config, surface, control_flow, stderr>>

\* Event::WindowEvent; for another window the event falls to the last arm
WindowEvent ==
    /\ pc = "window"
    /\ control_flow # "Exit"
    /\ \E window_id \in WindowIds, received \in WindowEvents :
        /\ event' = [kind |-> "WindowEvent", window_id |-> window_id,
                     event |-> received]
        /\ IF window_id = "window"
           THEN \E r \in {window_event(Self, control_flow, received)} :
                   /\ r.self.surface.configured <= MaxConfigures
                   /\ window_size' = r.self.window_size
                   /\ config' = r.self.config
                   /\ surface' = r.self.surface
                   /\ control_flow' = r.control_flow
           ELSE UNCHANGED <<window_size, config, surface, control_flow>>
    /\ UNCHANGED <<pc, dom, css, sheet, styled, layouts, looked, dims, rects, painted, lyon_buffer, canvas, items, input, pos, stack, result, stderr, redraw_requested>>

\* any other event: the arm _ => {}
OtherEvent ==
    /\ pc = "window"
    /\ control_flow # "Exit"
    /\ event' = [kind |-> "Suspended"]
    /\ UNCHANGED <<pc, dom, css, sheet, styled, layouts, looked, dims, rects, painted, lyon_buffer, canvas, items, input, pos, stack, result, window_size, config, surface, control_flow, stderr, redraw_requested>>

\* State::new(window, style_root) and event_loop.run: the window has a size
\* that is not empty, and the control flow is winit's default
InitWindow ==
    /\ pc = "window"
    /\ \E size \in {s \in Sizes : s.width > 0 /\ s.height > 0} :
        /\ window_size = New(size).window_size
        /\ config = New(size).config
        /\ surface = New(size).surface
    /\ control_flow = "Poll"
    /\ event = Null
    /\ stderr = None
    /\ redraw_requested = FALSE
    /\ dom = Null /\ css = Null /\ sheet = Null /\ styled = Null /\ dims = Null /\ rects = Null
    /\ layouts = {} /\ looked = Null /\ painted = Null /\ lyon_buffer = <<>>
    /\ canvas = Null /\ items = <<>>
    /\ input = <<>> /\ pos = 0 /\ stack = <<>> /\ result = Null

NextWindow == RedrawRequested \/ MainEventsCleared \/ WindowEvent \/ OtherEvent

SpecWindow == InitWindow /\ [][NextWindow]_vars

\* self.consume_char()
ConsumeChar ==
    /\ pc = "chars"
    /\ \E r \in {consume_char(input, pos)} :
        IF Panicked(r)
        THEN pc' = "panicked" /\ UNCHANGED <<pos, result>>
        ELSE pc' = pc /\ pos' = r.pos /\ result' = <<r.char>>
    /\ UNCHANGED <<dom, css, sheet, styled, layouts, looked, dims, rects, painted, lyon_buffer, canvas, items, input, stack, window_size, config, surface, control_flow, event, stderr, redraw_requested>>

\* Parser { pos: 0, input }
InitChars ==
    /\ pc = "chars"
    /\ input \in ShortInputs
    /\ dom = Null /\ css = Null
    /\ pos = 0
    /\ stack = <<>>
    /\ result = <<>>
    /\ NoPipeline

SpecChars == InitChars /\ [][ConsumeChar]_vars

\* the three boxes of a Dimensions value
TakeBoxes ==
    /\ pc = "start"
    /\ rects' = [padding_box |-> padding_box(dims), border_box |-> border_box(dims),
                 margin_box |-> margin_box(dims)]
    /\ pc' = "boxes"
    /\ UNCHANGED <<dom, css, sheet, styled, layouts, looked, dims, painted, lyon_buffer, canvas, items, input, pos, stack, result, window_size, config, surface, control_flow, event, stderr, redraw_requested>>

InitBox ==
    /\ pc = "start"
    /\ dims \in BoxDimensions
    /\ rects = Null
    /\ dom = Null /\ css = Null /\ sheet = Null /\ styled = Null
    /\ layouts = {} /\ looked = Null /\ painted = Null /\ lyon_buffer = <<>>
    /\ NoWindow
    /\ input = <<>> /\ pos = 0 /\ stack = <<>> /\ result = Null
    /\ canvas = Null /\ items = <<>>

SpecBox == InitBox /\ [][TakeBoxes]_vars

InitAccess == InitWith(AccessDocs, AccessSources)

NextAccess == ParseCss \/ StyleTree \/ Lookup

SpecAccess == InitAccess /\ [][NextAccess]_vars

InitCascade == InitWith(CascadeDocs, CascadeSources)

NextCascade == ParseCss \/ StyleTree

SpecCascade == InitCascade /\ [][NextCascade]_vars

\* ------------------------------------------------------------------ claims C1 - C4

IsElement(n) == n.node_type.kind = "Element"

\* a selector's present components are all satisfied by the element
Satisfies(e, sel) ==
    /\ sel.tag_name = None \/ sel.tag_name = Some(e.tag_name)
    /\ sel.id = None \/ ("id" \in DOMAIN e.attributes /\ sel.id = Some(e.attributes["id"]))
    /\ \A c \in Range(sel.class) : c \in classes(e)

RuleMatches(e, rule) == \E s \in Range(rule.selectors) : Satisfies(e, s)

\* the greatest specificity among the rule's selectors that the element satisfies
BestSpecificity(e, rule) ==
    CHOOSE k \in {specificity(s) : s \in {t \in Range(rule.selectors) : Satisfies(e, t)}} :
        \A s \in Range(rule.selectors) :
            Satisfies(e, s) => ~SpecificityLess(k, specificity(s))

Declares(rule, p) == \E d \in Range(rule.declarations) : d.name = p

\* the value a rule gives a property: its last declaration of it
RuleValue(rule, p) ==
    LET ds == SelectSeq(rule.declarations, LAMBDA d : d.name = p)
    IN  ds[Len(ds)].value

\* the rules of the sheet that match the element and declare p
Declaring(e, p) ==
    {i \in DOMAIN sheet.rules : RuleMatches(e, sheet.rules[i]) /\ Declares(sheet.rules[i], p)}

Properties == {"color", "display", "margin", "margin-left", "height", "padding"}

\* C1: matching_rules(E, S) holds exactly the rules of S with at least one selector
\* whose present components E satisfies (an absent component is a wildcard), each
\* once, in stylesheet order.
C1_MatchingRulesExact ==
    (pc # "start" /\ IsElement(dom)) =>
        LET m == matching_rules(dom.node_type, sheet)
        IN  [i \in DOMAIN m |-> m[i].rule]
              = SelectSeq([i \in DOMAIN sheet.rules |-> i],
                          LAMBDA i : RuleMatches(dom.node_type, sheet.rules[i]))

C1_Witness ==
    /\ pc = "styled" /\ IsElement(dom)
    /\ Len(matching_rules(dom.node_type, sheet)) = 2
    /\ Len(sheet.rules) = 3
    /\ \E i \in DOMAIN sheet.rules : \E s \in Range(sheet.rules[i].selectors) :
          s.tag_name = None /\ s.id = None /\ s.class = <<>>
    /\ \E i \in DOMAIN sheet.rules : \E s, t \in Range(sheet.rules[i].selectors) :
          Satisfies(dom.node_type, s) /\ ~Satisfies(dom.node_type, t)

\* C2: when the rule with the strictly highest specificity among the matching rules
\* that declare a property is rule j, the element's value of the property is rule
\* j's, wherever rule j stands in the stylesheet.
C2_HigherSpecificityWins ==
    (pc = "styled" /\ IsElement(dom)) =>
        \A p \in Properties : \A j \in Declaring(dom.node_type, p) :
            (\A i \in Declaring(dom.node_type, p) \ {j} :
                SpecificityLess(BestSpecificity(dom.node_type, sheet.rules[i]),
                                BestSpecificity(dom.node_type, sheet.rules[j])))
            => /\ p \in DOMAIN styled.specified_values
               /\ styled.specified_values[p] = RuleValue(sheet.rules[j], p)

C2_Witness ==
    /\ pc = "styled" /\ IsElement(dom)
    /\ \E i, j \in Declaring(dom.node_type, "color") :
        /\ j < i
        /\ Declaring(dom.node_type, "color") = {i, j}
        /\ SpecificityLess(BestSpecificity(dom.node_type, sheet.rules[i]),
                           BestSpecificity(dom.node_type, sheet.rules[j]))
        /\ RuleValue(sheet.rules[i], "color") # RuleValue(sheet.rules[j], "color")
        /\ styled.specified_values["color"] = RuleValue(sheet.rules[j], "color")

\* the matching rules declaring p whose specificity no other one exceeds
Top(e, p) ==
    {j \in Declaring(e, p) : \A i \in Declaring(e, p) :
        ~SpecificityLess(BestSpecificity(e, sheet.rules[j]), BestSpecificity(e, sheet.rules[i]))}

SetMax(S) == CHOOSE x \in S : \A y \in S : y <= x

\* C3: when several matching rules declare a property with the same specificity
\* and no matching rule declares it with a higher one, the element's value of
\* the property is that of the last of them in the stylesheet.
C3_LaterRuleWinsTies ==
    (pc = "styled" /\ IsElement(dom)) =>
        \A p \in Properties :
            Cardinality(Top(dom.node_type, p)) >= 2 =>
                /\ p \in DOMAIN styled.specified_values
                /\ styled.specified_values[p]
                     = RuleValue(sheet.rules[SetMax(Top(dom.node_type, p))], p)

C3_Witness ==
    /\ pc = "styled" /\ IsElement(dom)
    /\ \E i, j \in Top(dom.node_type, "color") :
        /\ i < j
        /\ j = SetMax(Top(dom.node_type, "color"))
        /\ RuleValue(sheet.rules[i], "color") # RuleValue(sheet.rules[j], "color")
        /\ styled.specified_values["color"] = RuleValue(sheet.rules[j], "color")
        /\ \E k \in Declaring(dom.node_type, "color") : k \notin Top(dom.node_type, "color")

\* C4: for a rule the CSS parser produced, the specificity match_rule records
\* for an element is the highest specificity among the rule's selectors that
\* match the element.
C4_RecordedSpecificityIsHighest ==
    (pc # "start" /\ IsElement(dom)) =>
        \A i \in DOMAIN sheet.rules :
            LET m == match_rule(dom.node_type, sheet.rules[i], i)
            IN  IF RuleMatches(dom.node_type, sheet.rules[i])
                THEN m # None
                     /\ m[1].specificity = BestSpecificity(dom.node_type, sheet.rules[i])
                ELSE m = None

C4_Witness ==
    /\ pc = "styled" /\ IsElement(dom)
    /\ \E i \in DOMAIN css :
        /\ Len(css[i].selectors) = 2
        /\ Satisfies(dom.node_type, css[i].selectors[1])
        /\ Satisfies(dom.node_type, css[i].selectors[2])
        /\ SpecificityLess(specificity(css[i].selectors[1]), specificity(css[i].selectors[2]))
        /\ match_rule(dom.node_type, sheet.rules[i], i)[1].specificity
             = specificity(css[i].selectors[2])

\* ------------------------------------------------------------------ claims C5 - C10

\* the positions of a tree's nodes: the child indices on the way from the root
RECURSIVE Paths(_)
Paths(n) ==
    {<<>>} \cup UNION {{<<i>> \o q : q \in Paths(n.children[i])} : i \in DOMAIN n.children}

RECURSIVE SameShape(_, _)
SameShape(d, s) ==
    /\ s.node = d
    /\ Len(s.children) = Len(d.children)
    /\ \A i \in DOMAIN d.children : SameShape(d.children[i], s.children[i])

Styled == pc \in {"styled", "laid", "panicked"}

\* C5: the styled tree has the shape of the document tree: one styled node for
\* every document node, whatever its display, with the styled nodes of the
\* document node's children as its children, in the same order.
C5_StyledTreeMirrorsDocument == Styled => SameShape(dom, styled)

C5_Witness ==
    /\ Styled
    /\ Len(dom.children) >= 2
    /\ \E i \in DOMAIN styled.children :
        /\ display(styled.children[i]) = "None"
        /\ styled.children[i].children # <<>>

\* C6 as stated: no styled node whose display is None is a child of a styled node.
C6_NoDisplayNoneChild ==
    Styled => \A q \in Paths(styled) : q # <<>> => display(node_at(styled, q)) # "None"

\* what the cascade gives the document node at a position
ComputedDisplay(q) ==
    LET n == node_at(dom, q)
    IN  display([node |-> n, children |-> <<>>,
                 specified_values |-> IF IsElement(n) THEN specified_values(n.node_type, sheet)
                                      ELSE EmptyMap])

\* C6 amended: the children of a styled node include those whose computed display
\* is None: a document node whose computed display is None has its styled node,
\* with display None, at the same position of the styled tree.
C6_DisplayNoneChildrenKept ==
    Styled => \A q \in Paths(dom) :
        ComputedDisplay(q) = "None" =>
            /\ q \in Paths(styled)
            /\ node_at(styled, q).node = node_at(dom, q)
            /\ display(node_at(styled, q)) = "None"

C6_Witness ==
    /\ Styled
    /\ \E q \in Paths(dom) :
        /\ Len(q) = 2
        /\ ComputedDisplay(q) = "None"
        /\ ComputedDisplay(SubSeq(q, 1, 1)) = "None"
        /\ display(node_at(styled, q)) = "None"

RECURSIVE Subnodes(_)
Subnodes(n) == {n} \cup UNION {Subnodes(n.children[i]) : i \in DOMAIN n.children}

HasValue(n, name, v) ==
    name \in DOMAIN n.specified_values /\ n.specified_values[name] = v

\* C7: display is Block exactly for display: Keyword("block"), None exactly for
\* Keyword("none"), and Inline otherwise (no display property, another keyword,
\* a length or a color); a text node is Inline.
C7_DisplayAccessor ==
    Styled => \A n \in Subnodes(styled) :
        /\ display(n) = "Block" <=> HasValue(n, "display", Keyword("block"))
        /\ display(n) = "None" <=> HasValue(n, "display", Keyword("none"))
        /\ display(n) = "Inline" <=>
              ~HasValue(n, "display", Keyword("block")) /\ ~HasValue(n, "display", Keyword("none"))
        /\ ~IsElement(n.node) => n.specified_values = EmptyMap /\ display(n) = "Inline"

C7_Witness ==
    /\ Styled
    /\ HasValue(styled, "display", Length(10))
    /\ display(styled) = "Inline"

\* C8: lookup returns the value of name when the node has it, else the value of
\* fallback_name when the node has it, else the default.
C8_LookupFirstPresent ==
    looked # Null =>
        looked.result =
            IF looked.name \in DOMAIN styled.specified_values
            THEN styled.specified_values[looked.name]
            ELSE IF looked.fallback_name \in DOMAIN styled.specified_values
            THEN styled.specified_values[looked.fallback_name]
            ELSE looked.default

C8_Witness ==
    /\ looked # Null
    /\ looked.name = "margin-left" /\ looked.fallback_name = "margin"
    /\ HasValue(styled, "margin-left", Length(3))
    /\ HasValue(styled, "margin", Length(5))
    /\ HasValue(styled, "display", Length(10))
    /\ looked.result = Length(3)

\* C9: two calls of layout_tree on the styled tree with containing blocks that
\* differ only in content height return the same layout tree.
C9_LayoutIgnoresContainingHeight ==
    \A a \in layouts : \A b \in layouts :
        [a.viewport EXCEPT !.content.height = 0] = [b.viewport EXCEPT !.content.height = 0]
            => a.root = b.root

C9_Witness ==
    \E a \in layouts : \E b \in layouts :
        /\ a.viewport.content.height # b.viewport.content.height
        /\ a.root = b.root
        /\ a.root.children # <<>>
        /\ a.root.dimensions.content.height > 0

\* C10: when the styled root's display is None, layout_tree panics and no layout
\* tree is returned.
C10_DisplayNoneRootPanics ==
    (pc \in {"laid", "panicked"} /\ display(styled) = "None")
        => pc = "panicked" /\ layouts = {}

C10_Witness ==
    /\ pc = "panicked"
    /\ display(styled) = "None"
    /\ \E i \in DOMAIN styled.children : display(styled.children[i]) = "Block"
    /\ layouts = {}

\* ------------------------------------------------------------------ claims C11, C12

\* the references of the boxes of a layout tree to styled nodes, in pre-order
RECURSIVE BoxRefs(_)
BoxRefs(box) ==
    LET F[i \in 0..Len(box.children)] ==
            IF i = 0 THEN <<>> ELSE F[i - 1] \o BoxRefs(box.children[i])
    IN  (IF box.box_type.kind = "AnonymousBlock" THEN <<>> ELSE <<box.box_type.node>>)
            \o F[Len(box.children)]

\* the boxes of a layout tree
RECURSIVE Boxes(_)
Boxes(box) == {box} \cup UNION {Boxes(box.children[i]) : i \in DOMAIN box.children}

Count(seq, x) == Cardinality({i \in DOMAIN seq : seq[i] = x})

\* neither the node nor one of its ancestors has display None
Shown(q) == \A k \in 0..Len(q) : display(node_at(styled, SubSeq(q, 1, k))) # "None"

\* C11: in a layout tree no box refers to a styled node whose display is None or
\* that lies below such a node, at any depth, and exactly one box refers to
\* every other styled node.
C11_DisplayNoneSubtreesAbsent ==
    \A l \in layouts :
        /\ Range(BoxRefs(l.root)) \subseteq Paths(styled)
        /\ \A q \in Paths(styled) :
              Count(BoxRefs(l.root), q) = IF Shown(q) THEN 1 ELSE 0

C11_Witness ==
    \E l \in layouts : \E q \in Paths(styled) :
        /\ Len(q) = 2
        /\ display(node_at(styled, q)) = "Block"
        /\ display(node_at(styled, SubSeq(q, 1, 1))) = "None"
        /\ Count(BoxRefs(l.root), q) = 0
        /\ Len(BoxRefs(l.root)) >= 2

IsAnonymous(box) == box.box_type.kind = "AnonymousBlock"

\* the children of a box with every anonymous child replaced by its children
Expanded(box) ==
    LET F[i \in 0..Len(box.children)] ==
            IF i = 0 THEN <<>>
            ELSE F[i - 1] \o (IF IsAnonymous(box.children[i]) THEN box.children[i].children
                               ELSE <<box.children[i]>>)
    IN  F[Len(box.children)]

\* the references to the children of the node at q whose display is not None
ShownChildren(q) ==
    LET n == node_at(styled, q)
    IN  SelectSeq([i \in DOMAIN n.children |-> Append(q, i)],
                  LAMBDA r : display(node_at(styled, r)) # "None")

\* C12: in the box tree a child with display Block is attached directly as a
\* Block box, an Inline child of a Block box lies in an Anonymous child box,
\* which neighbouring inline children (also across display-none siblings) share:
\* a Block box has no two adjacent Anonymous children and no empty one, and its
\* children, Anonymous boxes expanded, are the styled children whose display is
\* not None, in document order.
C12_AnonymousBoxStructure ==
    \A l \in layouts : \A b \in Boxes(l.root) :
        /\ ~IsAnonymous(b) =>
              /\ [i \in DOMAIN Expanded(b) |-> Expanded(b)[i].box_type.node]
                    = ShownChildren(b.box_type.node)
              /\ \A c \in Range(Expanded(b)) :
                    c.box_type.kind = IF display(node_at(styled, c.box_type.node)) = "Block"
                                      THEN "BlockNode" ELSE "InlineNode"
        /\ b.box_type.kind = "BlockNode" =>
              /\ \A c \in Range(b.children) :
                    ~IsAnonymous(c) => c.box_type.kind = "BlockNode"
              /\ \A i \in DOMAIN b.children :
                    IsAnonymous(b.children[i]) =>
                        /\ b.children[i].children # <<>>
                        /\ \A c \in Range(b.children[i].children) :
                              c.box_type.kind = "InlineNode"
                        /\ i > 1 => ~IsAnonymous(b.children[i - 1])

C12_Witness ==
    \E l \in layouts :
        /\ l.root.box_type.kind = "BlockNode"
        /\ Len(styled.children) = 3
        /\ display(styled.children[1]) = "Inline"
        /\ display(styled.children[2]) = "None"
        /\ display(styled.children[3]) = "Inline"
        /\ Len(l.root.children) = 1
        /\ IsAnonymous(l.root.children[1])
        /\ Len(l.root.children[1].children) = 2

\* ------------------------------------------------------------------ claims C13 - C17

\* the boxes of a laid-out tree, each with the Dimensions of its containing block
RECURSIVE BoxesIn(_, _)
BoxesIn(box, containing_block) ==
    {[box |-> box, containing_block |-> containing_block]}
        \cup UNION {BoxesIn(box.children[i], box.dimensions) : i \in DOMAIN box.children}

Placed(l) == BoxesIn(l.root, l.viewport)

IsBlock(box) == box.box_type.kind = "BlockNode"

\* the value the box's styled node gives the property, with its shorthand
Given(box, name, fallback_name) == lookup(style_of(styled, box), name, fallback_name, Zero)

GivenWidth(box) == lookup(style_of(styled, box), "width", "width", Auto)

\* the px of the box's left and right margins, borders and paddings as specified
Sides(box) ==
    to_px(Given(box, "margin-left", "margin")) + to_px(Given(box, "margin-right", "margin"))
      + to_px(Given(box, "border-left-width", "border-width"))
      + to_px(Given(box, "border-right-width", "border-width"))
      + to_px(Given(box, "padding-left", "padding"))
      + to_px(Given(box, "padding-right", "padding"))

\* C13: the content width of a block box with width auto is the containing
\* block's content width minus the box's left and right margins, borders and
\* paddings (an auto margin counts as 0), and 0 when that is negative: with no
\* margin, border and padding it is the containing width, and 780 in 800 with a
\* padding of 10 on both sides.
C13_AutoWidthFillsRemainder ==
    \A l \in layouts : \A p \in Placed(l) :
        (IsBlock(p.box) /\ GivenWidth(p.box) = Auto) =>
            LET rest == p.containing_block.content.width - Sides(p.box)
                w    == p.box.dimensions.content.width
            IN  /\ w = IF rest >= 0 THEN rest ELSE 0
                /\ Sides(p.box) = 0 => w = p.containing_block.content.width
                /\ (p.containing_block.content.width = 800
                      /\ Given(p.box, "padding-left", "padding") = Length(10)
                      /\ Given(p.box, "padding-right", "padding") = Length(10)
                      /\ Sides(p.box) = 20) => w = 780

C13_Witness ==
    \E l \in layouts :
        /\ IsBlock(l.root)
        /\ Given(l.root, "margin-left", "margin") = Auto
        /\ l.root.dimensions.content.width = 780
        /\ \E i \in DOMAIN l.root.children :
              /\ IsBlock(l.root.children[i])
              /\ GivenWidth(l.root.children[i]) = Auto
              /\ Sides(l.root.children[i]) > 780
              /\ l.root.children[i].dimensions.content.width = 0

\* the px of the box's borders and paddings, left and right, as specified
Inner(box) ==
    to_px(Given(box, "border-left-width", "border-width"))
      + to_px(Given(box, "border-right-width", "border-width"))
      + to_px(Given(box, "padding-left", "padding"))
      + to_px(Given(box, "padding-right", "padding"))

\* the width of the margin box, edge by edge
OuterWidth(d) ==
    d.margin.left + d.border.left + d.padding.left + d.content.width
      + d.padding.right + d.border.right + d.margin.right

\* C14: for a block box with an explicit width the space left over (containing
\* width minus width, borders, paddings and explicit margins) goes to the auto
\* margins in equal shares: half each when both are auto, all of it to a single
\* auto margin; the margin box is then as wide as the containing block's content.
C14_AutoMarginsShareLeftover ==
    \A l \in layouts : \A p \in Placed(l) :
        LET ml0 == Given(p.box, "margin-left", "margin")
            mr0 == Given(p.box, "margin-right", "margin")
            d   == p.box.dimensions
            leftover == p.containing_block.content.width
                          - (to_px(GivenWidth(p.box)) + Inner(p.box) + to_px(ml0) + to_px(mr0))
        IN  (IsBlock(p.box) /\ GivenWidth(p.box).kind = "Length" /\ (ml0 = Auto \/ mr0 = Auto)) =>
                /\ d.content.width = GivenWidth(p.box).f
                /\ (ml0 = Auto /\ mr0 = Auto) =>
                      d.margin.left = d.margin.right /\ d.margin.left + d.margin.right = leftover
                /\ (ml0 = Auto /\ mr0 # Auto) =>
                      d.margin.left = leftover /\ d.margin.right = to_px(mr0)
                /\ (ml0 # Auto /\ mr0 = Auto) =>
                      d.margin.right = leftover /\ d.margin.left = to_px(ml0)
                /\ OuterWidth(d) = p.containing_block.content.width
                /\ margin_box(d).width = p.containing_block.content.width

C14_Witness ==
    \E l \in layouts :
        /\ IsBlock(l.root)
        /\ GivenWidth(l.root) = Length(200)
        /\ Given(l.root, "margin-left", "margin") = Auto
        /\ Given(l.root, "margin-right", "margin") = Auto
        /\ l.root.dimensions.margin.left = 300 /\ l.root.dimensions.margin.right = 300
        /\ \E i \in DOMAIN l.root.children :
              LET c == l.root.children[i]
              IN  /\ IsBlock(c)
                  /\ GivenWidth(c) = Length(200)
                  /\ Given(c, "margin-left", "margin") = Auto
                  /\ Given(c, "margin-right", "margin") = Length(20)
                  /\ c.dimensions.margin.left = 0 - 20

\* C15: when width and both horizontal margins are explicit and margins,
\* borders, paddings and width together exceed the containing block's content
\* width, margin-right alone changes: it is reduced by the excess, below zero if
\* need be, and width, margin-left, paddings and borders keep their values.
C15_OverflowGoesToMarginRight ==
    \A l \in layouts : \A p \in Placed(l) :
        LET ml0 == Given(p.box, "margin-left", "margin")
            mr0 == Given(p.box, "margin-right", "margin")
            d   == p.box.dimensions
            excess == GivenWidth(p.box).f + Inner(p.box) + to_px(ml0) + to_px(mr0)
                        - p.containing_block.content.width
        IN  (IsBlock(p.box) /\ GivenWidth(p.box).kind = "Length"
               /\ ml0.kind = "Length" /\ mr0.kind = "Length" /\ excess > 0) =>
                /\ d.margin.right = mr0.f - excess
                /\ d.content.width = GivenWidth(p.box).f
                /\ d.margin.left = ml0.f
                /\ d.padding.left = to_px(Given(p.box, "padding-left", "padding"))
                /\ d.padding.right = to_px(Given(p.box, "padding-right", "padding"))
                /\ d.border.left = to_px(Given(p.box, "border-left-width", "border-width"))
                /\ d.border.right = to_px(Given(p.box, "border-right-width", "border-width"))

C15_Witness ==
    \E l \in layouts :
        /\ IsBlock(l.root)
        /\ GivenWidth(l.root) = Length(1000)
        /\ Given(l.root, "margin-right", "margin") = Length(20)
        /\ Given(l.root, "margin-left", "margin") = Length(10)
        /\ l.root.dimensions.padding.left = 10
        /\ l.root.dimensions.margin.right = 0 - 230
        /\ l.root.dimensions.margin.left = 10
        /\ l.root.dimensions.content.width = 1000

\* the top and the height of the margin box, edge by edge
OuterTop(d) == d.content.y - d.padding.top - d.border.top - d.margin.top

OuterHeight(d) ==
    d.margin.top + d.border.top + d.padding.top + d.content.height
      + d.padding.bottom + d.border.bottom + d.margin.bottom

\* C16: after layout the first child's margin box starts at the top of its
\* parent's content box, the margin box of every later child starts where the
\* margin box of the child before it ends (no gap, no overlap, no collapsing),
\* and a child's content x is the parent's content x plus the child's left
\* margin, border and padding.
C16_ChildrenStackVertically ==
    \A l \in layouts : \A b \in Boxes(l.root) : \A i \in DOMAIN b.children :
        LET c == b.children[i].dimensions
        IN  /\ OuterTop(c) = IF i = 1 THEN b.dimensions.content.y
                             ELSE OuterTop(b.children[i - 1].dimensions)
                                    + OuterHeight(b.children[i - 1].dimensions)
            /\ c.content.x = b.dimensions.content.x + c.margin.left + c.border.left
                               + c.padding.left

C16_Witness ==
    \E l \in layouts :
        /\ Len(l.root.children) = 2
        /\ l.root.dimensions.content.y = 0
        /\ l.root.children[1].dimensions.margin.top = 10
        /\ l.root.children[1].dimensions.margin.bottom = 10
        /\ l.root.children[1].dimensions.content.y = 10
        /\ l.root.children[1].dimensions.content.height = 30
        /\ l.root.children[2].dimensions.content.y = 60
        /\ l.root.children[2].dimensions.content.x = 10

\* the heights of the children's margin boxes added up
SumOfChildren(box) ==
    LET F[i \in 0..Len(box.children)] ==
            IF i = 0 THEN 0 ELSE F[i - 1] + OuterHeight(box.children[i].dimensions)
    IN  F[Len(box.children)]

HasHeight(box) ==
    LET h == value(style_of(styled, box), "height")
    IN  h # None /\ h[1].kind = "Length"

\* C17: after layout the content height of a box with an explicit height length
\* is that length, whatever its children; the content height of every other box
\* is the sum of the heights of its children's margin boxes, 0 without children.
C17_HeightExplicitOrChildren ==
    \A l \in layouts : \A b \in Boxes(l.root) :
        /\ b.dimensions.content.height =
              IF HasHeight(b) THEN value(style_of(styled, b), "height")[1].f
              ELSE SumOfChildren(b)
        /\ (~HasHeight(b) /\ b.children = <<>>) => b.dimensions.content.height = 0

C17_Witness ==
    \E l \in layouts :
        /\ HasHeight(l.root)
        /\ l.root.dimensions.content.height = 30
        /\ SumOfChildren(l.root) = 70
        /\ \E i \in DOMAIN l.root.children :
              LET c == l.root.children[i]
              IN  /\ ~HasHeight(c)
                  /\ Len(c.children) = 1
                  /\ c.dimensions.content.height = 50
                  /\ c.children[1].dimensions.content.height = 30

\* ------------------------------------------------------------------ claim C19

\* the rectangle outer covers the rectangle inner
Contains(outer, inner) ==
    /\ outer.x <= inner.x
    /\ outer.y <= inner.y
    /\ outer.x + outer.width >= inner.x + inner.width
    /\ outer.y + outer.height >= inner.y + inner.height

NoNegativeMargin(d) ==
    d.margin.left >= 0 /\ d.margin.right >= 0 /\ d.margin.top >= 0 /\ d.margin.bottom >= 0

\* C19 as stated: for the Dimensions of every box that layout produces, the
\* padding box contains the content box, the border box the padding box and
\* the margin box the border box.
C19_ExpansionMonotonic ==
    \A l \in layouts : \A b \in Boxes(l.root) :
        /\ Contains(padding_box(b.dimensions), b.dimensions.content)
        /\ Contains(border_box(b.dimensions), padding_box(b.dimensions))
        /\ Contains(margin_box(b.dimensions), border_box(b.dimensions))

\* C19 amended: for the Dimensions of every box that layout produces, the
\* padding box contains the content box and the border box contains the padding
\* box; the margin box contains the border box when none of the box's used
\* margins is negative (layout makes margin-right negative for an
\* over-constrained width, and auto margins negative for a negative leftover).
C19_MonotonicUnlessNegativeMargin ==
    \A l \in layouts : \A b \in Boxes(l.root) :
        /\ Contains(padding_box(b.dimensions), b.dimensions.content)
        /\ Contains(border_box(b.dimensions), padding_box(b.dimensions))
        /\ NoNegativeMargin(b.dimensions)
              => Contains(margin_box(b.dimensions), border_box(b.dimensions))

C19_Witness ==
    \E l \in layouts :
        /\ l.root.dimensions.margin.right < 0
        /\ l.root.dimensions.padding.left > 0
        /\ ~Contains(margin_box(l.root.dimensions), border_box(l.root.dimensions))
        /\ Contains(border_box(l.root.dimensions), padding_box(l.root.dimensions))
        /\ \E i \in DOMAIN l.root.children :
              /\ l.root.children[i].dimensions.margin.left > 0
              /\ NoNegativeMargin(l.root.children[i].dimensions)
              /\ Contains(margin_box(l.root.children[i].dimensions),
                          border_box(l.root.children[i].dimensions))

\* ------------------------------------------------------------------ claim C18

\* C18: for any Dimensions D, margin_box(D) is the content rectangle expanded
\* by the padding, then the border, then the margin: its x and y are the
\* content's minus the three left and the three top edges, its width and height
\* the content's plus the left and right and the top and bottom edges;
\* padding_box and border_box are the first and the first two steps of that.
C18_BoxModelIdentity ==
    rects # Null =>
        LET c == dims.content
            p == dims.padding
            b == dims.border
            m == dims.margin
        IN  /\ rects.padding_box =
                  Rect(c.x - p.left, c.y - p.top,
                       c.width + p.left + p.right, c.height + p.top + p.bottom)
            /\ rects.border_box =
                  Rect(c.x - p.left - b.left, c.y - p.top - b.top,
                       c.width + p.left + p.right + b.left + b.right,
                       c.height + p.top + p.bottom + b.top + b.bottom)
            /\ rects.margin_box =
                  Rect(c.x - (p.left + b.left + m.left), c.y - (p.top + b.top + m.top),
                       c.width + (p.left + b.left + m.left) + (p.right + b.right + m.right),
                       c.height + (p.top + b.top + m.top) + (p.bottom + b.bottom + m.bottom))
            /\ rects.margin_box = expanded_by(expanded_by(expanded_by(c, p), b), m)

C18_Witness ==
    /\ rects # Null
    /\ dims.content = Rect(10, 20, 100, 50)
    /\ dims.padding = EdgeSizes(2, 0, 0, 2)
    /\ dims.border = EdgeSizes(0, 4, 4, 0)
    /\ dims.margin = EdgeSizes(8, 0 - 6, 8, 8)
    /\ rects.margin_box = Rect(0, 8, 108, 72)

\* ------------------------------------------------------------------ claim C20

\* the positions of the boxes of a layout tree
RECURSIVE BoxPaths(_)
BoxPaths(box) ==
    {<<>>} \cup UNION {{<<i>> \o q : q \in BoxPaths(box.children[i])} : i \in DOMAIN box.children}

\* p is a proper ancestor of q
Above(p, q) == Len(p) < Len(q) /\ SubSeq(q, 1, Len(p)) = p

\* p's subtree lies under an earlier sibling than q's does
LeftOf(p, q) ==
    \E k \in 1..Len(p) :
        k <= Len(q) /\ SubSeq(p, 1, k - 1) = SubSeq(q, 1, k - 1) /\ p[k] < q[k]

\* the boxes that have a command: those with a background colour
Coloured == {q \in BoxPaths(painted.layout_root) :
                get_color(styled, node_at(painted.layout_root, q)) # None}

\* the boxes with a command that come before q in pre-order
Earlier(q) == {p \in Coloured : Above(p, q) \/ LeftOf(p, q)}

\* C20: the display list is a pre-order traversal of the layout tree: a box's
\* command comes before those of all its descendants, and the commands of a
\* child's subtree before those of its later siblings; the command at place k
\* is the SolidColor, over its border box, of the coloured box that k - 1
\* coloured boxes precede in that order. The rectangles are drawn in list order.
C20_DisplayListIsPreOrder ==
    painted # Null =>
        /\ Len(painted.display_commands) = Cardinality(Coloured)
        /\ \A q \in Coloured :
              LET b == node_at(painted.layout_root, q)
              IN  painted.display_commands[Cardinality(Earlier(q)) + 1]
                    = SolidColor(get_color(styled, b)[1], border_box(b.dimensions))
        /\ Len(lyon_buffer) = Len(painted.display_commands)
        /\ \A k \in DOMAIN lyon_buffer :
              lyon_buffer[k].rect = painted.display_commands[k].rect

C20_Witness ==
    /\ painted # Null
    /\ Len(painted.display_commands) = 4
    /\ painted.layout_root.box_type.kind = "BlockNode"
    /\ Len(painted.layout_root.children) = 2
    /\ Len(painted.layout_root.children[1].children) = 1
    /\ Coloured = {<<>>, <<1>>, <<1, 1>>, <<2>>}
    /\ painted.display_commands[1].color # painted.display_commands[2].color
    /\ painted.display_commands[3].rect # painted.display_commands[4].rect
    /\ painted.display_commands[1].rect = border_box(painted.layout_root.dimensions)

\* ------------------------------------------------------------------ claim C21

HasColour(n, name) ==
    name \in DOMAIN n.specified_values /\ n.specified_values[name].kind = "ColorValue"

\* the box's styled node gives the box a background colour
HasBackground(box) ==
    /\ ~IsAnonymous(box)
    /\ LET n == node_at(styled, box.box_type.node)
       IN  \/ HasColour(n, "background")
           \/ "background" \notin DOMAIN n.specified_values /\ HasColour(n, "background-color")

\* the colour of a box that has a background
BackgroundOf(box) ==
    LET n == node_at(styled, box.box_type.node)
    IN  IF "background" \in DOMAIN n.specified_values
        THEN n.specified_values["background"].color
        ELSE n.specified_values["background-color"].color

\* the border box, edge by edge
BorderRect(d) ==
    Rect(d.content.x - d.padding.left - d.border.left,
         d.content.y - d.padding.top - d.border.top,
         d.content.width + d.padding.left + d.padding.right + d.border.left + d.border.right,
         d.content.height + d.padding.top + d.padding.bottom + d.border.top + d.border.bottom)

PaintedBoxes ==
    {q \in BoxPaths(painted.layout_root) : HasBackground(node_at(painted.layout_root, q))}

\* C21: the display list holds exactly one command, SolidColor(colour, border
\* box), for each layout box whose styled node specifies a background colour and
\* none for any other box (a box without a background, an Anonymous box): every
\* command occurs as often as there are such boxes with its colour and border
\* box, and the list is as long as the number of boxes with a background.
C21_OneCommandPerBackground ==
    painted # Null =>
        /\ Len(painted.display_commands) = Cardinality(PaintedBoxes)
        /\ \A c \in Range(painted.display_commands) :
              /\ c.kind = "SolidColor"
              /\ Count(painted.display_commands, c) =
                    Cardinality({q \in PaintedBoxes :
                        LET b == node_at(painted.layout_root, q)
                        IN  c.color = BackgroundOf(b) /\ c.rect = BorderRect(b.dimensions)})
        /\ \A q \in PaintedBoxes :
              LET b == node_at(painted.layout_root, q)
              IN  \E k \in DOMAIN painted.display_commands :
                      /\ painted.display_commands[k].color = BackgroundOf(b)
                      /\ painted.display_commands[k].rect = BorderRect(b.dimensions)

C21_Witness ==
    /\ painted # Null
    /\ Len(painted.display_commands) = 2
    /\ Cardinality(BoxPaths(painted.layout_root)) = 5
    /\ \E q \in BoxPaths(painted.layout_root) : IsAnonymous(node_at(painted.layout_root, q))
    /\ \E q \in BoxPaths(painted.layout_root) :
          LET b == node_at(painted.layout_root, q)
          IN  ~IsAnonymous(b) /\ ~HasBackground(b)
    /\ \E q \in PaintedBoxes :
          node_at(painted.layout_root, q).dimensions.padding.left > 0
    /\ painted.display_commands[1].color # painted.display_commands[2].color

\* ------------------------------------------------------------------ claims C22, C27

\* the pixel in column x and row y lies in the rectangle (half pixels): the
\* rectangle starts before the pixel's far edges and reaches them
Covers(rect, x, y) ==
    /\ rect.x < 2 * x + 2 /\ 2 * x + 2 <= rect.x + rect.width
    /\ rect.y < 2 * y + 2 /\ 2 * y + 2 <= rect.y + rect.height

\* the indices of the canvas pixels the rectangle covers
CoveredPixels(rect) ==
    {x + y * canvas.width :
        x \in {c \in ((rect.x \div 2) - 1)..(((rect.x + rect.width) \div 2) + 1) :
                  c >= 0 /\ c < canvas.width /\ rect.x < 2 * c + 2
                    /\ 2 * c + 2 <= rect.x + rect.width},
        y \in {r \in ((rect.y \div 2) - 1)..(((rect.y + rect.height) \div 2) + 1) :
                  r >= 0 /\ r < canvas.height /\ rect.y < 2 * r + 2
                    /\ 2 * r + 2 <= rect.y + rect.height}}

\* C22: after the commands of a display list are painted in order onto a fresh
\* canvas, every pixel has the colour of the last command of the list whose
\* rectangle, clipped to the canvas, covers it, and is opaque white when none
\* does: a colour is overwritten, never blended.
C22_LastCoveringCommandWins ==
    pc = "canvas" =>
        /\ canvas.pixels.len = canvas.width * canvas.height
        /\ \A i \in DOMAIN canvas.pixels.set
                      \cup UNION {CoveredPixels(items[k].rect) : k \in DOMAIN items} :
              LET ks == {k \in DOMAIN items : i \in CoveredPixels(items[k].rect)}
              IN  /\ i < canvas.pixels.len
                  /\ pixel(canvas, i) =
                        IF ks = {} THEN <<255, 255, 255, 255>> ELSE items[SetMax(ks)].color

\* C27: paint_item is memory-safe for every rectangle (negative origin, partly
\* or wholly outside the canvas, of zero or negative size): no step panics on an
\* index that is not below pixels.len(), pixels.len() stays width * height, and
\* a step that paints a command leaves every pixel outside the command's
\* rectangle, clipped to the canvas, with the colour it had.
C27_PaintItemStaysInBounds ==
    [][/\ pc' # "panicked"
       /\ items' # items =>
            /\ canvas'.width = canvas.width /\ canvas'.height = canvas.height
            /\ canvas'.pixels.len = canvas.width * canvas.height
            /\ \A i \in DOMAIN canvas'.pixels.set :
                  /\ i < canvas.pixels.len
                  /\ i \notin CoveredPixels(items'[Len(items')].rect) =>
                        pixel(canvas', i) = pixel(canvas, i)]_vars

\* ------------------------------------------------------------------ claim C25

\* C25: consume_char returns the current character and moves pos to the start
\* of the next one: after every call pos is a character boundary of the input
\* or the input's length, also when the last character has more than one byte.
C25_PosOnCharBoundary ==
    pc = "chars" =>
        /\ is_char_boundary(input, pos)
        /\ result # <<>> =>
              \E k \in DOMAIN input : result = <<input[k]>> /\ pos = end_of(input, k)

\* ------------------------------------------------------------------ claim C23

\* the text nodes of a tree
RECURSIVE TextsOf(_)
TextsOf(node) ==
    (IF node.node_type.kind = "Text" THEN {node.node_type.data} ELSE {})
    \cup UNION {TextsOf(node.children[i]) : i \in DOMAIN node.children}

SortedBySpecificity(source, sorted) ==
    /\ Len(sorted) = Len(source)
    /\ \E from \in [DOMAIN source -> DOMAIN source] :
          /\ \A i \in DOMAIN source : sorted[i] = source[from[i]]
          /\ \A i, j \in DOMAIN source :
                i < j =>
                    \/ SpecificityLess(specificity(sorted[j]), specificity(sorted[i]))
                    \/ /\ specificity(sorted[j]) = specificity(sorted[i])
                       /\ from[i] < from[j]

\* C24: parse returns the rules in source order, each with its declarations in
\* source order and one selector for every entry of the comma-separated list,
\* the selectors by non-increasing specificity and those of equal
\* specificity in source order.
C24_ParseKeepsOrder ==
    pc = "done" /\ css # Null =>
        /\ Len(result.rules) = Len(css.rules)
        /\ \A i \in DOMAIN css.rules :
              /\ result.rules[i].declarations = css.rules[i].declarations
              /\ SortedBySpecificity(css.rules[i].selectors, result.rules[i].selectors)

\* h1, h2, h3 { two declarations } has been parsed and stays h1, h2, h3
C24_Witness ==
    /\ pc = "done"
    /\ css # Null
    /\ Len(css.rules) = 1
    /\ Len(css.rules[1].selectors) = 3
    /\ Len(css.rules[1].declarations) = 2
    /\ \A i \in 1..3 : css.rules[1].selectors[i].tag_name = Some(<<"h", Digits[i + 1]>>)
    /\ result.rules[1].selectors = css.rules[1].selectors

\* ------------------------------------------------------------------ claim C26

\* a bound on the steps a parser can still take: none when it has returned
\* or panicked; else three for every byte not yet consumed, since a step that
\* consumes nothing calls parse_selectors from parse_rules or
\* parse_simple_selector from parse_selectors
StepsLeft ==
    IF pc \in {"done", "panicked"} THEN 0
    ELSE 1 + 3 * (len(input) - pos)
           + (IF stack[Len(stack)].fn = "parse_rules" THEN 2
              ELSE IF stack[Len(stack)].fn = "parse_selectors" THEN 1 ELSE 0)

\* C26: both parsers terminate on every input: pos never decreases, every
\* iteration of parse_rules, parse_selectors, parse_simple_selector,
\* parse_declarations, parse_nodes and parse_attributes consumes a character,
\* leaves its loop or panics (so a loop that begins another iteration is at a
\* later pos than when it began the one before), and the parse ends by
\* returning or by a panic: every step lowers StepsLeft, which is never
\* negative, so no parse takes more than 3 * len + 3 steps.
C26_ParsersTerminate ==
    /\ [](pc \in {"html", "css"} => stack[Len(stack)].start < pos /\ pos <= len(input))
    /\ [][pos' >= pos /\ StepsLeft' < StepsLeft]_vars

\* a stylesheet of two rules has been parsed to its end, every loop having
\* run more than once
C26_Witness ==
    /\ pc = "done"
    /\ css # Null
    /\ Len(result.rules) = 2
    /\ pos = len(input)
    /\ pos > 0

\* ------------------------------------------------------------------ claim C28

ForWindow == event'.kind \in {"RedrawRequested", "WindowEvent"} /\ event'.window_id = "window"

\* C29: in the event loop control_flow becomes Exit only on a render that
\* fails with SurfaceError::OutOfMemory, on CloseRequested or on a pressed
\* Escape key; a render that fails with SurfaceError::Lost configures the
\* surface again at the current window_size and the loop goes on; any other
\* render error is written to stderr and the loop goes on; every
\* MainEventsCleared requests a redraw.
C29_ExitOnlyOnThreeEvents ==
    [][pc = "window" =>
        /\ control_flow' = "Exit" =>
            /\ ForWindow
            /\ \/ event'.kind = "RedrawRequested" /\ event'.rendered = "OutOfMemory"
               \/ event'.kind = "WindowEvent" /\ event'.event = CloseRequested
               \/ event'.kind = "WindowEvent"
                    /\ event'.event = KeyboardInput("Pressed", Some("Escape"))
        /\ ForWindow /\ event'.kind = "RedrawRequested" /\ event'.rendered = "Lost" =>
            /\ control_flow' = control_flow
            /\ window_size' = window_size
            /\ config' = config
            /\ surface' = [width |-> window_size.width, height |-> window_size.height,
                           configured |-> surface.configured + 1]
        /\ ForWindow /\ event'.kind = "RedrawRequested"
                /\ event'.rendered \in {"Outdated", "Timeout"} =>
            /\ stderr' = Some(event'.rendered)
            /\ control_flow' = control_flow
            /\ surface' = surface
        /\ event'.kind = "MainEventsCleared" =>
            redraw_requested' /\ control_flow' = control_flow]_vars

\* the loop has ended on a render that failed with OutOfMemory, after a
\* render that failed with Lost and one whose error was written to stderr
C29_Witness ==
    /\ pc = "window"
    /\ control_flow = "Exit"
    /\ event.kind = "RedrawRequested" /\ event.rendered = "OutOfMemory"
    /\ surface.configured = 2
    /\ stderr = Some("Timeout")

\* C30: State::resize with a new size whose width or height is 0 leaves
\* window_size and the configuration of the surface as they are; with a
\* positive size it sets window_size, config.width and config.height to the
\* new size; config.width and config.height therefore always equal the width
\* and the height of window_size.
C30_ConfigFollowsWindowSize ==
    /\ [](pc = "window" =>
            /\ config.width = window_size.width
            /\ config.height = window_size.height
            /\ surface.width = config.width
            /\ surface.height = config.height)
    /\ [][pc = "window" /\ ForWindow /\ event'.kind = "WindowEvent"
            /\ event'.event.kind \in {"Resized", "ScaleFactorChanged"} =>
          IF event'.event.size.width = 0 \/ event'.event.size.height = 0
          THEN window_size' = window_size /\ config' = config /\ surface' = surface
          ELSE /\ window_size' = event'.event.size
               /\ config'.width = event'.event.size.width
               /\ config'.height = event'.event.size.height
               /\ surface'.configured = surface.configured + 1]_vars

\* the window was resized to a positive size and then to one of width 0
C30_Witness ==
    /\ pc = "window"
    /\ event.kind = "WindowEvent" /\ event.window_id = "window"
    /\ event.event.kind = "Resized" /\ event.event.size.width = 0
    /\ surface.configured = 2
    /\ window_size = PhysicalSize(MaxSize, 1)

====
